---- MODULE Spec2Model ----
(***************************************************************************)
(* Trademark dashboard: the report detail page (selection of similarity    *)
(* matches, index reconciliation, score handling) and the email-templates  *)
(* page (session-storage hand-over, grouping by applicant, email lookups). *)
(*                                                                         *)
(* Representation.                                                         *)
(*  - A score is an integer number of units of 1e-5, so 0.85 is 85000 and  *)
(*    the percentage 85 is 8500000.  Every score used is one for which the *)
(*    divisions by 100 are exact.                                          *)
(*  - A JavaScript object is a record; an optional field that is absent is *)
(*    absent from the record's DOMAIN.                                     *)
(*  - A string that the code inspects character by character (an applicant *)
(*    name) is a sequence of one-character strings; a string the code only *)
(*    compares or prints is a TLA+ string.                                 *)
(*  - Array positions are 0-based as in the source; findIndex gives -1.    *)
(*  - A selection key `${entryIndex}-${simIndex}` is the pair              *)
(*    <<entryIndex, simIndex>>.                                            *)
(***************************************************************************)
EXTENDS Integers, Sequences, FiniteSets, TLC

VARIABLES
    \* ---- authentication context (useAuth) ----
    authLoading,        \* auth state still being determined
    authenticated,      \* user?.authenticated
    \* ---- routing and session storage ----
    page,               \* "detail" | "toEmail" | "email" | "home"
    storage,            \* sessionStorage: the keys present, with their values
    \* ---- ReportDetailsPage state ----
    reportData,         \* 0 (null) or the position in Reports of the loaded report
    loading,
    error,
    inflight,           \* getReportData requests issued and not yet answered
    applicantFilterMode,
    selectedApplicant,  \* NoApplicant or a name
    selectedTrademarks, \* set of selection keys
    \* ---- EmailTemplatesPage state ----
    emSelected,         \* selectedTrademarks (the parsed list)
    emReport,           \* reportData: 0 (null) or a report position
    applicantGroups,
    emLoading,
    emError,
    lookups,            \* getApplicantEmail requests in flight: [index, name]
    \* ---- bookkeeping of the run (not program state) ----
    nFetches,           \* getReportData requests issued so far
    nToggles,           \* handleTrademarkSelect calls made so far
    oddKeys,            \* keys that received an odd number of calls since mount
    lastOn,             \* keys whose most recent call had checked = TRUE
    bulkKeys,           \* keys that received a call from a select-all checkbox
    clicked,            \* the selection set and the report held at the last Generate click
    \* ---- inputs and results of the pure functions (SpecScore, SpecNames) ----
    fin,
    fout,
    \* ---- the tab components: ReportGenerationTab, TextSearchTab, PDFProcessingTab ----
    reportsTab,         \* [reports, loading, error, downloadingId, pending, issued, failed]
    textTab,            \* [queryText, loading, results, error, pending, issued]
    pdfTab              \* [file, selectedMonday, loading, results, error, pending, issued]

vars == <<authLoading, authenticated, page, storage, reportData, loading, error,
          inflight, applicantFilterMode, selectedApplicant, selectedTrademarks,
          emSelected, emReport, applicantGroups, emLoading, emError, lookups,
          nFetches, nToggles, oddKeys, lastOn, bulkKeys, clicked, fin, fout,
          reportsTab, textTab, pdfTab>>

detailVars == <<reportData, loading, error, inflight, applicantFilterMode,
                selectedApplicant, selectedTrademarks>>
emailVars == <<emSelected, emReport, applicantGroups, emLoading, emError, lookups>>
ghostVars == <<oddKeys, lastOn, bulkKeys>>
pureVars == <<fin, fout>>
tabVars == <<reportsTab, textTab, pdfTab>>

(***************************************************************************)
(* Bounds of the model.                                                    *)
(***************************************************************************)
MaxToggles == 4
MaxFetches == 3
MaxPct == 150
MaxNameLen == 3

MaxRuns == 2

MaxRequests == 2

(***************************************************************************)
(* Scores.                                                                 *)
(***************************************************************************)
SCALE == 100 * 1000

Pct(p) == p * SCALE

Frac(p) == p * (SCALE \div 100)

Abs(x) == IF x < 0 THEN 0 - x ELSE x

\* the tolerance 0.0001 of the reconciliation
Epsilon == SCALE \div 10000

\* the number JSON.parse gives for a literal beyond the double range (1e999)
Infinity == 10000 * SCALE

\* x / 100 (Infinity / 100 is Infinity)
Over100(x) == IF x = Infinity THEN Infinity ELSE x \div 100

\* Math.abs(a - b) < 0.0001; Infinity - Infinity is NaN and NaN < 0.0001 is false
Near(a, b) == ~(a = Infinity /\ b = Infinity) /\ Abs(a - b) < Epsilon

\* minThreshold = 0.3
MinThreshold == Frac(30)

Normalize_gte(score) == IF score >= SCALE THEN score \div 100 ELSE score

\* score > 1 ? score / 100 : score
Normalize(score) == IF score > SCALE THEN Over100(score) ELSE score

\* `${(value * 100).toFixed(1)}%`
formatPercentage(value) ==
    LET tenths == (value + 50) \div 100
    IN  IF value = Infinity THEN "Infinity%"
        ELSE ToString(tenths \div 10) \o "." \o ToString(tenths % 10) \o "%"

getRiskLevel(score) ==
    IF score >= Frac(80) THEN "HIGH RISK"
    ELSE IF score >= Frac(60) THEN "MEDIUM RISK"
    ELSE "LOW RISK"

getScoreColor(score) ==
    IF score >= Frac(80) THEN "red"
    ELSE IF score >= Frac(70) THEN "orange"
    ELSE IF score >= Frac(50) THEN "yellow"
    ELSE "gray"

\* the row class of the standard view table
RowHighlight(score) ==
    IF score >= Frac(80) THEN "bg-red"
    ELSE IF score >= Frac(70) THEN "bg-orange"
    ELSE "bg-white"

RECURSIVE MaxOf(_)
\* Math.max(...xs) of a non-empty list
MaxOf(xs) ==
    IF Len(xs) = 1 THEN xs[1]
    ELSE LET m == MaxOf(Tail(xs)) IN IF xs[1] >= m THEN xs[1] ELSE m

(***************************************************************************)
(* Strings and optional fields.                                            *)
(***************************************************************************)
Has(obj, f) == f \in DOMAIN obj

\* the value of an optional field, as a list of at most one element
Opt(obj, f) == IF f \in DOMAIN obj THEN <<obj[f]>> ELSE <<>>

IsSpace(c) == c = " "

RECURSIVE TrimStart(_)
TrimStart(s) == IF s # <<>> /\ IsSpace(Head(s)) THEN TrimStart(Tail(s)) ELSE s

RECURSIVE TrimEnd(_)
TrimEnd(s) ==
    IF s # <<>> /\ IsSpace(s[Len(s)]) THEN TrimEnd(SubSeq(s, 1, Len(s) - 1)) ELSE s

\* String.prototype.trim
Trim(s) == TrimEnd(TrimStart(s))

Unknown == <<"U", "n", "k", "n", "o", "w", "n">>

GroupKey_noTrim(sim) ==
    IF Has(sim, "applicant_name") /\ sim.applicant_name # <<>>
    THEN sim.applicant_name ELSE Unknown

\* sim.applicant_name?.trim() || '', and '' replaced by 'Unknown'
GroupKey(sim) ==
    LET applicantName == IF Has(sim, "applicant_name") THEN Trim(sim.applicant_name) ELSE <<>>
    IN  IF applicantName = <<>> THEN Unknown ELSE applicantName

(***************************************************************************)
(* Report data the backend may answer with.                                *)
(***************************************************************************)
Acme == <<"A", "c">>

Beta == <<"B">>

\* entry TIGER: an exact duplicate pair, and a score sent as a percentage
EntryTiger ==
    [trademark_type |-> "text_only", mark_name |-> "TIGER", trademark_class |-> "25",
     pdf_source |-> "Journal_2237_Class25.pdf", page_number |-> 86,
     similar_trademarks |-> <<
        [mark |-> "TYGER", similarity_score |-> Frac(85), trademark_class |-> "Class 25",
         applicant_name |-> Acme],
        [mark |-> "TYGER", similarity_score |-> Frac(85), trademark_class |-> "Class 25",
         applicant_name |-> Acme],
        [mark |-> "TIGR", similarity_score |-> Pct(85), trademark_class |-> "25",
         applicant_name |-> <<" ", "A", "c", " ">>] >>]

\* entry LION: matches under an alternative field name, one below the threshold,
\* one with a blank applicant name and one with none
EntryLion ==
    [trademark_type |-> "text_only", mark_name |-> "LION", trademark_class |-> "9",
     matches |-> <<
        [mark |-> "LYON", similarity_score |-> Frac(20), trademark_class |-> "9",
         applicant_name |-> Beta],
        [mark |-> "LION", similarity_score |-> Frac(65), trademark_class |-> "9",
         applicant_name |-> <<" ">>],
        [mark |-> "LYON", similarity_score |-> Frac(90), trademark_class |-> "9"] >>]

\* entry TIGER as a later answer may hold it: two matches that differ in class
\* and by less than the tolerance in score, the first below the threshold
EntryTigerLater ==
    [trademark_type |-> "text_only", mark_name |-> "TIGER", trademark_class |-> "25",
     pdf_source |-> "Journal_2237_Class25.pdf", page_number |-> 86,
     similar_trademarks |-> <<
        [mark |-> "TYGER", similarity_score |-> Frac(30) - 5, trademark_class |-> "Class 25",
         applicant_name |-> Acme],
        [mark |-> "TYGER", similarity_score |-> Frac(30), trademark_class |-> "Class 5",
         applicant_name |-> Acme],
        [mark |-> "TIGRE", similarity_score |-> Frac(50), trademark_class |-> "5",
         applicant_name |-> <<"a", "c">>] >>]

\* entry PUMA: a match whose score was sent as 1e999, and an ordinary one
EntryPuma ==
    [trademark_type |-> "text_only", mark_name |-> "PUMA", trademark_class |-> "18",
     similar_trademarks |-> <<
        [mark |-> "PUMMA", similarity_score |-> Infinity, trademark_class |-> "18",
         applicant_name |-> Beta],
        [mark |-> "PUMAS", similarity_score |-> Frac(70), trademark_class |-> "18",
         applicant_name |-> Beta] >>]

\* entry ONYX: the first field name present but empty, the matches under a
\* later field name
EntryOnyx ==
    [trademark_type |-> "text_only", mark_name |-> "ONYX", trademark_class |-> "3",
     similar_trademarks |-> <<>>,
     similarities |-> <<
        [mark |-> "ONIX", similarity_score |-> Frac(75), trademark_class |-> "3",
         applicant_name |-> Acme] >>]

Reports ==
    << [report_id |-> "r1", monday_date |-> "2025-01-06",
        entries_with_similarities |-> <<EntryTiger, EntryLion>>],
       [report_id |-> "r1", monday_date |-> "2025-01-06",
        journal_entries |-> <<EntryTigerLater, EntryLion>>],
       [report_id |-> "r1", monday_date |-> "2025-01-06",
        entries |-> <<EntryPuma, EntryLion, EntryOnyx>>] >>

(***************************************************************************)
(* Reading the report: alternative field names.                            *)
(***************************************************************************)
\* a || b || c || d || [] over fields that hold arrays (an array is truthy)
FirstPresent(obj, names) ==
    IF \E i \in 1..Len(names) : Has(obj, names[i])
    THEN obj[names[CHOOSE i \in 1..Len(names) :
                 /\ Has(obj, names[i])
                 /\ \A j \in 1..(i - 1) : ~Has(obj, names[j])]]
    ELSE <<>>

\* entry?.similar_trademarks || entry?.similar_trademark || entry?.similarities ||
\* entry?.matches || []
SimilarOf(entry) ==
    FirstPresent(entry, <<"similar_trademarks", "similar_trademark", "similarities", "matches">>)

EntriesOf_onlyPrimary(report) ==
    FirstPresent(report, <<"entries_with_similarities">>)

\* reportData.entries_with_similarities || reportData.entries || reportData.journal_entries
EntriesOf(report) ==
    FirstPresent(report, <<"entries_with_similarities", "entries", "journal_entries">>)

\* the entries of the report currently held by the detail page
entries == IF reportData = 0 THEN <<>> ELSE EntriesOf(Reports[reportData])

At(seq, i) == seq[i + 1]

Indices(seq) == 0..(Len(seq) - 1)

(***************************************************************************)
(* Derived views and index reconciliation.                                 *)
(***************************************************************************)
ScoreOr0(sim) == IF Has(sim, "similarity_score") THEN sim.similarity_score ELSE 0

Visible(sim, minThreshold) ==
    /\ Has(sim, "similarity_score")
    /\ Normalize(sim.similarity_score) >= minThreshold

getFilteredSimilarTrademarks(similarTrademarks) ==
    SelectSeq(similarTrademarks, LAMBDA sim : Visible(sim, MinThreshold))

\* the findIndex predicate of the standard view (rows and select-all)
SameStandard(s, sim) ==
    /\ Opt(s, "mark") = Opt(sim, "mark")
    /\ Near(ScoreOr0(s), ScoreOr0(sim))
    /\ Opt(s, "applicant_name") = Opt(sim, "applicant_name")

\* the findIndex predicate of the applicant-filtered view
SameApplicantView(s, sim) ==
    /\ Opt(s, "mark") = Opt(sim, "mark")
    /\ Near(ScoreOr0(s), ScoreOr0(sim))
    /\ Opt(s, "applicant_name") = Opt(sim, "applicant_name")
    /\ Opt(s, "trademark_class") = Opt(sim, "trademark_class")

\* Array.prototype.findIndex: the first position satisfying the predicate, or -1
FindIndexStandard(similarTrademarks, sim) ==
    LET hits == {i \in Indices(similarTrademarks) : SameStandard(At(similarTrademarks, i), sim)}
    IN  IF hits = {} THEN -1 ELSE CHOOSE i \in hits : \A j \in hits : i <= j

FindIndexApplicantView(similarTrademarks, sim) ==
    LET hits == {i \in Indices(similarTrademarks) :
                    SameApplicantView(At(similarTrademarks, i), sim)}
    IN  IF hits = {} THEN -1 ELSE CHOOSE i \in hits : \A j \in hits : i <= j

RECURSIVE InsertDesc(_, _)
\* x placed after every element whose key is not smaller (a stable descending sort)
InsertDesc(x, sorted) ==
    IF sorted = <<>> THEN <<x>>
    ELSE IF Head(sorted).key >= x.key THEN <<Head(sorted)>> \o InsertDesc(x, Tail(sorted))
    ELSE <<x>> \o sorted

RECURSIVE SortDesc(_)
\* Array.prototype.sort((a, b) => b.key - a.key)
SortDesc(items) ==
    IF items = <<>> THEN <<>>
    ELSE InsertDesc(items[Len(items)], SortDesc(SubSeq(items, 1, Len(items) - 1)))

RECURSIVE MapEntries(_, _)
\* the .map of entriesWithMatches, each item with the position of its entry
MapEntries(es, i) ==
    IF i >= Len(es) THEN <<>>
    ELSE LET filtered == getFilteredSimilarTrademarks(SimilarOf(At(es, i)))
         IN  <<[entryIndex |-> i, filtered |-> filtered,
                key |-> IF filtered = <<>> THEN 0
                        ELSE MaxOf([k \in 1..Len(filtered) |-> ScoreOr0(filtered[k])])]>>
             \o MapEntries(es, i + 1)

\* entries.map(...).filter(filtered.length > 0).sort(maxB - maxA)
entriesWithMatches ==
    SortDesc(SelectSeq(MapEntries(entries, 0), LAMBDA item : item.filtered # <<>>))

NoApplicant == <<"<null>">>

RECURSIVE MatchesOfEntry(_, _, _)
MatchesOfEntry(applicantName, e, sims) ==
    IF sims = <<>> THEN <<>>
    ELSE LET sim == Head(sims)
             keep == /\ Has(sim, "applicant_name")
                     /\ sim.applicant_name # <<>>
                     /\ Trim(sim.applicant_name) = Trim(applicantName)
                     /\ Has(sim, "similarity_score")
                     /\ Normalize(sim.similarity_score) >= MinThreshold
         IN  (IF keep THEN <<[entryIndex |-> e, sim |-> sim,
                              key |-> Normalize(sim.similarity_score)]>> ELSE <<>>)
             \o MatchesOfEntry(applicantName, e, Tail(sims))

RECURSIVE MatchesFrom(_, _, _)
MatchesFrom(applicantName, es, i) ==
    IF i >= Len(es) THEN <<>>
    ELSE MatchesOfEntry(applicantName, i, SimilarOf(At(es, i)))
         \o MatchesFrom(applicantName, es, i + 1)

\* the matches of one applicant, highest normalized score first
getFilteredMatchesByApplicant(applicantName, es) ==
    SortDesc(MatchesFrom(applicantName, es, 0))

\* the names offered by the applicant modal (getUniqueApplicants)
getUniqueApplicants(es) ==
    UNION {{Trim(At(SimilarOf(At(es, e)), i).applicant_name) :
               i \in {j \in Indices(SimilarOf(At(es, e))) :
                        /\ Has(At(SimilarOf(At(es, e)), j), "applicant_name")
                        /\ Trim(At(SimilarOf(At(es, e)), j).applicant_name) # <<>>}} :
           e \in Indices(es)}

(***************************************************************************)
(* What the two views show of a match score.                               *)
(***************************************************************************)
\* a row of the standard view table: class, score colour and score text
StandardRow(sim) ==
    [highlight |-> RowHighlight(sim.similarity_score),
     color |-> getScoreColor(sim.similarity_score),
     text |-> formatPercentage(sim.similarity_score)]

\* the risk badge of an entry of the standard view
StandardRisk(filtered) ==
    getRiskLevel(MaxOf([k \in 1..Len(filtered) |-> filtered[k].similarity_score]))

\* a card of the applicant-filtered view: score colour and score text
ApplicantRow(sim) ==
    LET score == Normalize(sim.similarity_score)
    IN  [color |-> getScoreColor(score), text |-> formatPercentage(score)]

(***************************************************************************)
(* Selection tracker.                                                      *)
(***************************************************************************)
handleTrademarkSelect_alwaysAdd(prev, entryIndex, simIndex, checked) ==
    prev \cup {<<entryIndex, simIndex>>}

\* setSelectedTrademarks(prev => add or delete `${entryIndex}-${simIndex}`)
handleTrademarkSelect(prev, entryIndex, simIndex, checked) ==
    IF checked THEN prev \cup {<<entryIndex, simIndex>>}
    ELSE prev \ {<<entryIndex, simIndex>>}

RECURSIVE ApplyCalls(_, _)
\* the queued updaters applied in order; a call is <<entryIndex, simIndex, checked>>
ApplyCalls(prev, calls) ==
    IF calls = <<>> THEN prev
    ELSE ApplyCalls(handleTrademarkSelect(prev, calls[1][1], calls[1][2], calls[1][3]),
                    Tail(calls))

RECURSIVE SelectedOfEntry(_, _, _, _, _)
SelectedOfEntry(selected, entry, entryIndex, sims, simIndex) ==
    IF simIndex >= Len(sims) THEN <<>>
    ELSE (IF <<entryIndex, simIndex>> \in selected
          THEN <<[entry |-> entry, sim |-> At(sims, simIndex),
                  entryIndex |-> entryIndex, simIndex |-> simIndex]>>
          ELSE <<>>)
         \o SelectedOfEntry(selected, entry, entryIndex, sims, simIndex + 1)

RECURSIVE SelectedFrom(_, _, _)
SelectedFrom(selected, es, entryIndex) ==
    IF entryIndex >= Len(es) THEN <<>>
    ELSE SelectedOfEntry(selected, At(es, entryIndex), entryIndex,
                         SimilarOf(At(es, entryIndex)), 0)
         \o SelectedFrom(selected, es, entryIndex + 1)

\* the (entry, sim, entryIndex, simIndex) of every key of the set found in the entries
getSelectedTrademarksData(selected, es) == SelectedFrom(selected, es, 0)

(***************************************************************************)
(* Session storage and the email-templates page.                           *)
(***************************************************************************)
Null == "<null>"

\* a group's email: null
NoEmail == <<>>

Absent == <<>>

\* the text JSON.stringify gives for a value of plain data: JSON.parse gives the
\* value back; "kind" is what Array.isArray and truthiness see of it
Json(value, kind) == [ok |-> TRUE, kind |-> kind, value |-> value]

\* a text JSON.parse throws on
Garbage == [ok |-> FALSE, kind |-> "garbage", value |-> <<>>]

\* the empty string: getItem returns '', which is falsy
EmptyText == [ok |-> FALSE, kind |-> "empty", value |-> <<>>]

EmptyStorage == [selectedTrademarks |-> Absent, reportData |-> Absent]

\* !storedTrademarks, !storedReportData
Missing(item) == item = Absent \/ item[1] = EmptyText

\* !reportData of the parsed report
Falsy(r) == r.kind \in {"null", "zero"}

AddToGroups_wholeEntry(groups, item) ==
    LET applicantName == GroupKey(item.sim)
        g == IF \E i \in 1..Len(groups) : groups[i].applicantName = applicantName
             THEN groups
             ELSE Append(groups, [applicantName |-> applicantName, email |-> NoEmail,
                                  loading |-> TRUE, entries |-> <<>>])
        gi == CHOOSE i \in 1..Len(g) : g[i].applicantName = applicantName
        es == IF \E k \in 1..Len(g[gi].entries) : g[gi].entries[k].entryIndex = item.entryIndex
              THEN g[gi].entries
              ELSE Append(g[gi].entries, [entryIndex |-> item.entryIndex, entry |-> item.entry,
                                          similarTrademarks |-> <<>>])
        ek == CHOOSE k \in 1..Len(es) : es[k].entryIndex = item.entryIndex
    IN  [g EXCEPT ![gi].entries =
            [es EXCEPT ![ek].similarTrademarks = SimilarOf(item.entry)]]

\* one step of selectedTrademarks.forEach in the grouping effect
AddToGroups(groups, item) ==
    LET applicantName == GroupKey(item.sim)
        g == IF \E i \in 1..Len(groups) : groups[i].applicantName = applicantName
             THEN groups
             ELSE Append(groups, [applicantName |-> applicantName, email |-> NoEmail,
                                  loading |-> TRUE, entries |-> <<>>])
        gi == CHOOSE i \in 1..Len(g) : g[i].applicantName = applicantName
        es == IF \E k \in 1..Len(g[gi].entries) : g[gi].entries[k].entryIndex = item.entryIndex
              THEN g[gi].entries
              ELSE Append(g[gi].entries, [entryIndex |-> item.entryIndex, entry |-> item.entry,
                                          similarTrademarks |-> <<>>])
        ek == CHOOSE k \in 1..Len(es) : es[k].entryIndex = item.entryIndex
    IN  [g EXCEPT ![gi].entries =
            [es EXCEPT ![ek].similarTrademarks = Append(@, item.sim)]]

RECURSIVE GroupAll(_, _)
GroupAll(groups, list) ==
    IF list = <<>> THEN groups ELSE GroupAll(AddToGroups(groups, Head(list)), Tail(list))

\* the groups the grouping effect builds from the parsed list
BuildGroups(list) == GroupAll(<<>>, list)

RECURSIVE SumLens(_)
SumLens(es) == IF es = <<>> THEN 0 ELSE Len(Head(es).similarTrademarks) + SumLens(Tail(es))

RECURSIVE TotalInGroups(_)
\* totalTrademarksInGroups
TotalInGroups(groups) ==
    IF groups = <<>> THEN 0 ELSE SumLens(Head(groups).entries) + TotalInGroups(Tail(groups))

\* the number of the run of the grouping effect that issues lookups next
NextRun(lk) ==
    IF lk = {} THEN 1
    ELSE 1 + (CHOOSE n \in {l.run : l \in lk} : \A l \in lk : l.run <= n)

\* groups.forEach(async (group, index) => getApplicantEmail(group.applicantName))
LookupsFor(groups, run) ==
    {[run |-> run, index |-> i - 1, applicantName |-> groups[i].applicantName] :
        i \in 1..Len(groups)}

\* a selected item the grouping effect can read: it has a sim
Usable(item) == Has(item, "sim")

\* the grouping effect throws a TypeError at sim.mark / sim.applicant_name
GroupingThrows(st) ==
    /\ ~Missing(st.selectedTrademarks) /\ ~Missing(st.reportData)
    /\ st.selectedTrademarks[1].ok /\ st.reportData[1].ok
    /\ st.selectedTrademarks[1].kind = "array"
    /\ ~Falsy(st.reportData[1])
    /\ \E i \in 1..Len(st.selectedTrademarks[1].value) :
          ~Usable(st.selectedTrademarks[1].value[i])

\* The load effect of the email-templates page followed by the grouping effect its
\* state change triggers, from the state (sel, rep, groups, ld, err, lk) before it, with
\* session storage st.
LoadEffect(st, sel, rep, groups, ld, err, lk) ==
    IF Missing(st.selectedTrademarks) \/ Missing(st.reportData)
    THEN /\ emError' = "No selected trademarks found. Please go back and select trademarks."
         /\ emLoading' = FALSE
         /\ emSelected' = sel /\ emReport' = rep /\ applicantGroups' = groups /\ lookups' = lk
         /\ storage' = st
    ELSE LET t == st.selectedTrademarks[1]
             r == st.reportData[1]
         IN  IF ~t.ok \/ ~r.ok
             THEN \* JSON.parse throws: the catch block
                  /\ emError' = "Failed to load selected trademarks data. Please go back and try again."
                  /\ emLoading' = FALSE
                  /\ storage' = EmptyStorage
                  /\ emSelected' = sel /\ emReport' = rep /\ applicantGroups' = groups
                  /\ lookups' = lk
             ELSE IF t.kind # "array" \/ t.value = <<>>
             THEN /\ emError' = "No valid selected trademarks found. Please go back and select trademarks."
                  /\ emLoading' = FALSE
                  /\ emSelected' = sel /\ emReport' = rep /\ applicantGroups' = groups
                  /\ lookups' = lk
                  /\ storage' = st
             ELSE /\ emSelected' = t.value
                  /\ emReport' = (IF r.kind = "null" THEN Absent ELSE <<r.value>>)
                  /\ emError' = err
                  /\ storage' = st
                  /\ IF Falsy(r) \/ GroupingThrows(st)
                     THEN \* the grouping effect returns at its guard, or throws
                          /\ applicantGroups' = groups /\ emLoading' = ld /\ lookups' = lk
                     ELSE /\ applicantGroups' = BuildGroups(t.value)
                          /\ emLoading' = FALSE
                          /\ lookups' = lk \cup LookupsFor(BuildGroups(t.value), NextRun(lk))

(***************************************************************************)
(* The pages as state machines.                                            *)
(***************************************************************************)
\* useState initial values of ReportGenerationTab; no request issued
ReportsTabUnmounted ==
    [reports |-> <<>>, loading |-> TRUE, error |-> Null, downloadingId |-> Null,
     pending |-> {}, issued |-> 0, failed |-> {}, answered |-> {}]

\* useState initial values of TextSearchTab
TextTabUnmounted ==
    [queryText |-> <<>>, loading |-> FALSE, results |-> <<>>, error |-> Null,
     pending |-> 0, issued |-> 0]

\* useState initial values of PDFProcessingTab
PdfTabUnmounted ==
    [file |-> Null, selectedMonday |-> "", loading |-> FALSE, results |-> Null,
     error |-> Null, pending |-> 0, issued |-> 0]

\* no tab component is mounted
NoTabs ==
    /\ reportsTab = ReportsTabUnmounted
    /\ textTab = TextTabUnmounted
    /\ pdfTab = PdfTabUnmounted

DetailUnmounted ==
    /\ reportData' = 0 /\ loading' = TRUE /\ error' = Null /\ inflight' = 0
    /\ applicantFilterMode' = FALSE /\ selectedApplicant' = NoApplicant
    /\ selectedTrademarks' = {}
    /\ oddKeys' = {} /\ lastOn' = {} /\ bulkKeys' = {}

EmailUnmounted ==
    /\ emSelected' = <<>> /\ emReport' = Absent /\ applicantGroups' = <<>>
    /\ emLoading' = TRUE /\ emError' = Null /\ lookups' = {}

\* router.push('/'): both pages gone
RedirectHome ==
    /\ page' = "home"
    /\ DetailUnmounted /\ EmailUnmounted
    /\ UNCHANGED <<storage, nFetches, nToggles, clicked>>

\* fetchReportData up to its await: setLoading(true), setError(null), request issued
StartFetch ==
    /\ nFetches < MaxFetches
    /\ loading' = TRUE /\ error' = Null
    /\ inflight' = inflight + 1
    /\ nFetches' = nFetches + 1

\* the state right after the detail page is mounted and its effect has run
Init ==
    /\ authLoading = TRUE /\ authenticated = FALSE
    /\ page = "detail" /\ storage = EmptyStorage
    /\ reportData = 0 /\ loading = TRUE /\ error = Null /\ inflight = 1
    /\ applicantFilterMode = FALSE /\ selectedApplicant = NoApplicant
    /\ selectedTrademarks = {}
    /\ emSelected = <<>> /\ emReport = Absent /\ applicantGroups = <<>>
    /\ emLoading = TRUE /\ emError = Null /\ lookups = {}
    /\ nFetches = 1 /\ nToggles = 0
    /\ oddKeys = {} /\ lastOn = {} /\ bulkKeys = {}
    /\ clicked = [keys |-> {}, report |-> 0, alert |-> FALSE]
    /\ fin = <<>> /\ fout = [op |-> "none"]
    /\ NoTabs

\* the load effect of the email-templates page, and the grouping effect after it;
\* an exception thrown by an effect takes the page down
EmailPageEffect ==
    /\ NextRun(lookups) <= MaxRuns
    /\ LoadEffect(storage, emSelected, emReport, applicantGroups, emLoading, emError,
                  lookups)
    /\ page' = IF GroupingThrows(storage) THEN "crash" ELSE "email"
    /\ UNCHANGED <<detailVars, nFetches, nToggles, ghostVars, clicked>>

\* the effect of the mounted page, run again because user or authLoading changed
RunPageEffect(authed) ==
    IF ~authed
    THEN RedirectHome
    ELSE IF page = "detail"
    THEN /\ StartFetch
         /\ UNCHANGED <<page, storage, reportData, applicantFilterMode, selectedApplicant,
                        selectedTrademarks, emailVars, nToggles, ghostVars, clicked>>
    ELSE /\ page = "email"
         /\ EmailPageEffect

\* the auth context finishes loading
AuthResolve ==
    /\ authLoading
    /\ page \in {"detail", "email"}
    /\ \E a \in BOOLEAN :
          /\ authLoading' = FALSE
          /\ authenticated' = a
          /\ RunPageEffect(a)
    /\ UNCHANGED <<pureVars, tabVars>>

\* the auth context hands out a new user object for the same authenticated user
UserRefresh ==
    /\ ~authLoading /\ authenticated
    /\ page \in {"detail", "email"}
    /\ RunPageEffect(TRUE)
    /\ UNCHANGED <<authLoading, authenticated, pureVars, tabVars>>

\* getReportData answers: setReportData(data?.data || data), setLoading(false)
FetchDone ==
    /\ page = "detail" /\ inflight > 0
    /\ \E r \in 1..Len(Reports) : reportData' = r
    /\ loading' = FALSE
    /\ inflight' = inflight - 1
    /\ UNCHANGED <<authLoading, authenticated, page, storage, error, applicantFilterMode,
                   selectedApplicant, selectedTrademarks, emailVars, nFetches, nToggles,
                   ghostVars, clicked, pureVars, tabVars>>

\* err.message of a rejected request: none, or what the server says
Messages == {"", "Service unavailable"}

\* getReportData throws: setError(err.message || fallback), setLoading(false)
FetchFailWith(message) ==
    /\ page = "detail" /\ inflight > 0
    /\ error' = IF message # "" THEN message ELSE "Failed to load report data"
    /\ loading' = FALSE
    /\ inflight' = inflight - 1
    /\ UNCHANGED <<authLoading, authenticated, page, storage, reportData,
                   applicantFilterMode, selectedApplicant, selectedTrademarks, emailVars,
                   nFetches, nToggles, ghostVars, clicked, pureVars, tabVars>>

FetchFail == \E message \in Messages : FetchFailWith(message)

\* the report is on screen (none of the early returns of the render is taken)
Interactive ==
    /\ page = "detail" /\ ~authLoading /\ ~loading /\ error = Null /\ reportData # 0

InApplicantView == applicantFilterMode /\ selectedApplicant # NoApplicant

RECURSIVE OddAfter(_, _)
OddAfter(odd, calls) ==
    IF calls = <<>> THEN odd
    ELSE LET k == <<calls[1][1], calls[1][2]>>
         IN  OddAfter(IF k \in odd THEN odd \ {k} ELSE odd \cup {k}, Tail(calls))

RECURSIVE LastOnAfter(_, _)
LastOnAfter(on, calls) ==
    IF calls = <<>> THEN on
    ELSE LET k == <<calls[1][1], calls[1][2]>>
         IN  LastOnAfter(IF calls[1][3] THEN on \cup {k} ELSE on \ {k}, Tail(calls))

\* a run of handleTrademarkSelect calls made by one event handler
Select(calls, bulk) ==
    /\ nToggles + Len(calls) <= MaxToggles
    /\ selectedTrademarks' = ApplyCalls(selectedTrademarks, calls)
    /\ nToggles' = nToggles + Len(calls)
    /\ oddKeys' = OddAfter(oddKeys, calls)
    /\ lastOn' = LastOnAfter(lastOn, calls)
    /\ bulkKeys' = IF bulk THEN bulkKeys \cup {<<calls[i][1], calls[i][2]>> : i \in 1..Len(calls)}
                   ELSE bulkKeys
    /\ UNCHANGED <<authLoading, authenticated, page, storage, reportData, loading, error,
                   inflight, applicantFilterMode, selectedApplicant, emailVars, nFetches,
                   clicked, pureVars, tabVars>>

\* the rows of an entry's table, one per filtered match: the key of its checkbox,
\* or nothing where findIndex found no position (console.warn and return null)
StandardRows(item) ==
    [k \in 1..Len(item.filtered) |->
        LET actualSimIndex ==
                FindIndexStandard(SimilarOf(At(entries, item.entryIndex)), item.filtered[k])
        IN  IF actualSimIndex = -1 THEN <<>> ELSE << <<item.entryIndex, actualSimIndex>> >>]

\* a row checkbox of the standard view
RowToggleStandard ==
    /\ Interactive /\ ~InApplicantView
    /\ \E n \in 1..Len(entriesWithMatches) :
          LET rows == StandardRows(entriesWithMatches[n])
          IN  \E k \in 1..Len(rows) :
                /\ rows[k] # <<>>
                /\ Select(<< <<rows[k][1][1], rows[k][1][2],
                               rows[k][1] \notin selectedTrademarks>> >>, FALSE)

\* whether the select-all checkbox of an entry is shown checked
AllSelected(item) ==
    /\ item.filtered # <<>>
    /\ \A k \in 1..Len(item.filtered) :
          LET simIndex == FindIndexStandard(SimilarOf(At(entries, item.entryIndex)),
                                            item.filtered[k])
          IN  simIndex # -1 /\ <<item.entryIndex, simIndex>> \in selectedTrademarks

SelectAllCalls_noGuard(item, checked) ==
    [k \in 1..Len(item.filtered) |->
        <<item.entryIndex,
          FindIndexStandard(SimilarOf(At(entries, item.entryIndex)), item.filtered[k]),
          checked>>]

\* the handleTrademarkSelect calls of the select-all checkbox of an entry
SelectAllCalls(item, checked) ==
    SelectSeq([k \in 1..Len(item.filtered) |->
                  <<item.entryIndex,
                    FindIndexStandard(SimilarOf(At(entries, item.entryIndex)), item.filtered[k]),
                    checked>>],
              LAMBDA c : c[2] # -1)

\* the select-all checkbox in the table head of an entry
SelectAllStandard ==
    /\ Interactive /\ ~InApplicantView
    /\ \E n \in 1..Len(entriesWithMatches) :
          LET item == entriesWithMatches[n]
          IN  Select(SelectAllCalls(item, ~AllSelected(item)), TRUE)

\* the cards of the applicant-filtered view, one per match of the applicant: the
\* key of its checkbox, or nothing where findIndex found no position
ApplicantCards(filteredMatches) ==
    [k \in 1..Len(filteredMatches) |->
        LET entryIndex == filteredMatches[k].entryIndex
            actualSimIndex ==
                FindIndexApplicantView(SimilarOf(At(entries, entryIndex)),
                                       filteredMatches[k].sim)
        IN  IF actualSimIndex = -1 THEN <<>> ELSE << <<entryIndex, actualSimIndex>> >>]

\* a checkbox of the applicant-filtered view
RowToggleApplicant ==
    /\ Interactive /\ InApplicantView
    /\ LET cards == ApplicantCards(getFilteredMatchesByApplicant(selectedApplicant, entries))
       IN  \E k \in 1..Len(cards) :
             /\ cards[k] # <<>>
             /\ Select(<< <<cards[k][1][1], cards[k][1][2],
                            cards[k][1] \notin selectedTrademarks>> >>, FALSE)

\* an applicant picked in the modal
ChooseApplicant ==
    /\ Interactive
    /\ \E name \in getUniqueApplicants(entries) :
          /\ selectedApplicant' = name
          /\ applicantFilterMode' = TRUE
    /\ UNCHANGED <<authLoading, authenticated, page, storage, reportData, loading, error,
                   inflight, selectedTrademarks, emailVars, nFetches, nToggles, ghostVars,
                   clicked, pureVars, tabVars>>

\* "Clear Filter"
ClearFilter ==
    /\ Interactive /\ InApplicantView
    /\ applicantFilterMode' = FALSE
    /\ selectedApplicant' = NoApplicant
    /\ UNCHANGED <<authLoading, authenticated, page, storage, reportData, loading, error,
                   inflight, selectedTrademarks, emailVars, nFetches, nToggles, ghostVars,
                   clicked, pureVars, tabVars>>

\* alert('Please select at least one trademark ...') and return
AlertOnly ==
    /\ clicked' = [keys |-> selectedTrademarks, report |-> reportData, alert |-> TRUE]
    /\ UNCHANGED <<page, storage, detailVars, emailVars, ghostVars>>

\* both keys removed and set again, router.push to the email-templates page, whose
\* effects then run
StoreAndNavigate(selectedData) ==
    /\ page' = "email"
    /\ clicked' = [keys |-> selectedTrademarks, report |-> reportData, alert |-> FALSE]
    /\ DetailUnmounted
    /\ LoadEffect([selectedTrademarks |-> <<Json(selectedData, "array")>>,
                   reportData |-> <<Json(Reports[reportData], "object")>>],
                  <<>>, Absent, <<>>, TRUE, Null, {})

GenerateTemplates_noAlert ==
    /\ Interactive /\ selectedTrademarks # {}
    /\ StoreAndNavigate(getSelectedTrademarksData(selectedTrademarks, entries))
    /\ UNCHANGED <<authLoading, authenticated, nFetches, nToggles, pureVars, tabVars>>

\* handleGenerateTemplates, from the floating button shown while the set is not empty
GenerateTemplates ==
    /\ Interactive /\ selectedTrademarks # {}
    /\ LET selectedData == getSelectedTrademarksData(selectedTrademarks, entries)
       IN  IF selectedData = <<>> THEN AlertOnly ELSE StoreAndNavigate(selectedData)
    /\ UNCHANGED <<authLoading, authenticated, nFetches, nToggles, pureVars, tabVars>>

\* "Back to Report": the detail page is mounted afresh and its effect runs
BackToReport ==
    /\ page = "email" /\ ~authLoading
    /\ (emError # Null \/ ~emLoading)
    /\ page' = "detail"
    /\ EmailUnmounted
    /\ reportData' = 0 /\ applicantFilterMode' = FALSE /\ selectedApplicant' = NoApplicant
    /\ selectedTrademarks' = {}
    /\ oddKeys' = {} /\ lastOn' = {} /\ bulkKeys' = {}
    /\ nFetches < MaxFetches
    /\ loading' = TRUE /\ error' = Null /\ inflight' = 1 /\ nFetches' = nFetches + 1
    /\ UNCHANGED <<authLoading, authenticated, storage, nToggles, clicked, pureVars, tabVars>>

SetGroupEmail_everyGroup(groups, index, email) ==
    [g \in 1..Len(groups) |-> [groups[g] EXCEPT !.email = email, !.loading = FALSE]]

\* updated[index] = { ...updated[index], email, loading: false }
SetGroupEmail(groups, index, email) ==
    IF index < Len(groups)
    THEN [groups EXCEPT ![index + 1] = [@ EXCEPT !.email = email, !.loading = FALSE]]
    ELSE \* { ...undefined, email, loading: false } written past the end of the array
         Append(groups, [email |-> email, loading |-> FALSE])

\* what getApplicantEmail answers for a name: the address on file, or nothing
EmailOf(applicantName) == <<"@">> \o applicantName

\* getApplicantEmail answers, with an address or with nothing
LookupDone ==
    /\ page = "email"
    /\ \E l \in lookups : \E email \in {EmailOf(l.applicantName), NoEmail} :
          /\ applicantGroups' = SetGroupEmail(applicantGroups, l.index, email)
          /\ lookups' = lookups \ {l}
    /\ UNCHANGED <<authLoading, authenticated, page, storage, detailVars, emSelected,
                   emReport, emLoading, emError, nFetches, nToggles, ghostVars, clicked,
                   pureVars, tabVars>>

LookupFail_pageError ==
    /\ page = "email"
    /\ \E l \in lookups :
          /\ emError' = "Failed to fetch email"
          /\ lookups' = lookups \ {l}
    /\ UNCHANGED <<authLoading, authenticated, page, storage, detailVars, emSelected,
                   emReport, emLoading, applicantGroups, nFetches, nToggles, ghostVars,
                   clicked, pureVars, tabVars>>

\* getApplicantEmail throws
LookupFail ==
    /\ page = "email"
    /\ \E l \in lookups :
          /\ applicantGroups' = SetGroupEmail(applicantGroups, l.index, NoEmail)
          /\ lookups' = lookups \ {l}
    /\ UNCHANGED <<authLoading, authenticated, page, storage, detailVars, emSelected,
                   emReport, emLoading, emError, nFetches, nToggles, ghostVars, clicked,
                   pureVars, tabVars>>

Next ==
    \/ AuthResolve
    \/ UserRefresh
    \/ FetchDone
    \/ FetchFail
    \/ RowToggleStandard
    \/ SelectAllStandard
    \/ RowToggleApplicant
    \/ ChooseApplicant
    \/ ClearFilter
    \/ GenerateTemplates
    \/ BackToReport
    \/ LookupDone
    \/ LookupFail

Spec == Init /\ [][Next]_vars

(***************************************************************************)
(* The pure functions on their own: score normalization, grouping keys.    *)
(***************************************************************************)
\* no page mounted
Idle ==
    /\ authLoading = FALSE /\ authenticated = FALSE
    /\ page = "home" /\ storage = EmptyStorage
    /\ reportData = 0 /\ loading = TRUE /\ error = Null /\ inflight = 0
    /\ applicantFilterMode = FALSE /\ selectedApplicant = NoApplicant
    /\ selectedTrademarks = {}
    /\ emSelected = <<>> /\ emReport = Absent /\ applicantGroups = <<>>
    /\ emLoading = TRUE /\ emError = Null /\ lookups = {}
    /\ nFetches = 0 /\ nToggles = 0
    /\ oddKeys = {} /\ lastOn = {} /\ bulkKeys = {}
    /\ clicked = [keys |-> {}, report |-> 0, alert |-> FALSE]
    /\ NoTabs

pageVars == <<authLoading, authenticated, page, storage, detailVars, emailVars,
              nFetches, nToggles, ghostVars, clicked>>

\* scores as fractions 0.00 .. 1.00 and as percentages 2 .. MaxPct
ScoreInputs == {Frac(k) : k \in 0..100} \cup {Pct(k) : k \in 2..MaxPct}

InitScore == Idle /\ fin \in ScoreInputs /\ fout = [op |-> "none"]

ApplyNormalize ==
    /\ fout.op = "none"
    /\ fout' = [op |-> "normalize", once |-> Normalize(fin), twice |-> Normalize(Normalize(fin))]
    /\ UNCHANGED <<fin, pageVars, tabVars>>

NextScore == ApplyNormalize

SpecScore == InitScore /\ [][NextScore]_vars

NameChars == {" ", "a", "A"}

\* applicant names: every string over NameChars up to MaxNameLen, and the sentinel
NameInputs ==
    UNION {[1..n -> NameChars] : n \in 0..MaxNameLen} \cup {Unknown, <<" ">> \o Unknown}

\* matches that differ at most in the applicant name, which may be missing
SimInputs ==
    {[mark |-> "TYGER", similarity_score |-> Frac(85)]}
    \cup {[mark |-> "TYGER", similarity_score |-> Frac(85), applicant_name |-> n] :
             n \in NameInputs}

InitNames == Idle /\ fin \in SimInputs \X SimInputs /\ fout = [op |-> "none"]

\* the grouping effect on a list of two selected matches of one entry
ApplyGrouping ==
    /\ fout.op = "none"
    /\ fout' = [op |-> "group",
                groups |-> BuildGroups(<<[entry |-> EntryLion, sim |-> fin[1],
                                          entryIndex |-> 0, simIndex |-> 0],
                                         [entry |-> EntryLion, sim |-> fin[2],
                                          entryIndex |-> 0, simIndex |-> 1]>>)]
    /\ UNCHANGED <<fin, pageVars, tabVars>>

NextNames == ApplyGrouping

SpecNames == InitNames /\ [][NextNames]_vars

(***************************************************************************)
(* The email-templates page opened on its own (direct visit or reload), with *)
(* whatever the two session-storage keys hold.                              *)
(***************************************************************************)
\* a stored list of two selected matches of the first report, of two applicants
StoredSelection == getSelectedTrademarksData({<<0, 0>>, <<1, 0>>}, EntriesOf(Reports[1]))

\* texts the key 'selectedTrademarks' may hold
StoredLists ==
    {Absent, <<EmptyText>>, <<Garbage>>,
     <<Json(<<>>, "array")>>,
     <<Json(<<>>, "null")>>,
     <<Json(<<>>, "object")>>,
     <<Json(<<[entryIndex |-> 0, simIndex |-> 0]>>, "array")>>,
     <<Json(StoredSelection, "array")>>}

\* texts the key 'reportData' may hold
StoredReports ==
    {Absent, <<EmptyText>>, <<Garbage>>,
     <<Json(<<>>, "null")>>,
     <<Json(<<>>, "zero")>>,
     <<Json(<<>>, "array")>>,
     <<Json(Reports[1], "object")>>}

\* the page constructed, its effects not yet run
InitEmail ==
    /\ authLoading \in BOOLEAN /\ authenticated \in BOOLEAN
    /\ authLoading => ~authenticated
    /\ page = "mount"
    /\ storage \in [selectedTrademarks : StoredLists, reportData : StoredReports]
    /\ reportData = 0 /\ loading = TRUE /\ error = Null /\ inflight = 0
    /\ applicantFilterMode = FALSE /\ selectedApplicant = NoApplicant
    /\ selectedTrademarks = {}
    /\ emSelected = <<>> /\ emReport = Absent /\ applicantGroups = <<>>
    /\ emLoading = TRUE /\ emError = Null /\ lookups = {}
    /\ nFetches = 0 /\ nToggles = 0
    /\ oddKeys = {} /\ lastOn = {} /\ bulkKeys = {}
    /\ clicked = [keys |-> {}, report |-> 0, alert |-> FALSE]
    /\ fin = <<>> /\ fout = [op |-> "none"]
    /\ NoTabs

\* the effects of the first render
MountEmail ==
    /\ page = "mount"
    /\ IF ~authLoading /\ ~authenticated THEN RedirectHome ELSE EmailPageEffect
    /\ UNCHANGED <<authLoading, authenticated, pureVars, tabVars>>

NextEmail ==
    \/ MountEmail
    \/ AuthResolve
    \/ UserRefresh
    \/ LookupDone
    \/ LookupFail

SpecEmail == InitEmail /\ [][NextEmail]_vars

\* the email-templates page with its effects scheduled: React runs the effects of
\* a mounted component, and the auth context finishes loading
SpecEmailLive == SpecEmail /\ WF_vars(MountEmail) /\ WF_vars(AuthResolve)

(***************************************************************************)
(* The tab components: the reports list, text search and PDF processing.   *)
(* page names the component that is mounted.                               *)
(***************************************************************************)
ReportA == [report_id |-> "r1", monday_date |-> 6]

ReportB == [report_id |-> "r2", monday_date |-> 13]

\* what getReports answers: reports in any order, none, or no reports field
ListAnswers ==
    {[reports |-> <<ReportA, ReportB>>], [reports |-> <<ReportB, ReportA>>],
     [reports |-> <<ReportA>>], [reports |-> <<>>], [total |-> 0]}

RECURSIVE InsertByDate(_, _)
InsertByDate(x, sorted) ==
    IF sorted = <<>> THEN <<x>>
    ELSE IF Head(sorted).monday_date >= x.monday_date
         THEN <<Head(sorted)>> \o InsertByDate(x, Tail(sorted))
         ELSE <<x>> \o sorted

RECURSIVE SortByDate(_)
\* sort((a, b) => new Date(b.monday_date) - new Date(a.monday_date)): newest first
SortByDate(list) ==
    IF list = <<>> THEN <<>>
    ELSE InsertByDate(list[Len(list)], SortByDate(SubSeq(list, 1, Len(list) - 1)))

\* err.message || fallback
MessageOr(message, fallback) == IF message # "" THEN message ELSE fallback

TabFrame(tab) ==
    /\ UNCHANGED <<pageVars, pureVars>>
    /\ tab # "reports" => UNCHANGED reportsTab
    /\ tab # "text" => UNCHANGED textTab
    /\ tab # "pdf" => UNCHANGED pdfTab

\* fetchReports after its await, for the mount fetch (isInitialLoad) or a poll
ListFetchDone ==
    /\ page = "reports"
    /\ \E req \in reportsTab.pending : \E data \in ListAnswers :
          /\ req.kind \in {"initial", "poll"}
          /\ reportsTab' =
                [reportsTab EXCEPT
                    !.reports = SortByDate(IF Has(data, "reports") THEN data.reports ELSE <<>>),
                    !.loading = IF req.kind = "initial" THEN FALSE ELSE @,
                    !.pending = @ \ {req},
                    !.answered = @ \cup {[id |-> req.id, data |-> data]}]
    /\ TabFrame("reports")

ListFetchFailWith_alwaysSurfaced(req, message) ==
    /\ page = "reports"
    /\ req \in reportsTab.pending /\ req.kind \in {"initial", "poll"}
    /\ reportsTab' =
          [reportsTab EXCEPT
              !.error = MessageOr(message, "Failed to fetch reports"),
              !.loading = FALSE,
              !.pending = @ \ {req},
              !.failed = @ \cup {req.kind}]
    /\ TabFrame("reports")

\* fetchReports: catch and finally
ListFetchFailWith(req, message) ==
    /\ page = "reports"
    /\ req \in reportsTab.pending /\ req.kind \in {"initial", "poll"}
    /\ reportsTab' =
          [reportsTab EXCEPT
              !.error = IF req.kind = "initial"
                        THEN MessageOr(message, "Failed to fetch reports") ELSE @,
              !.loading = IF req.kind = "initial" THEN FALSE ELSE @,
              !.pending = @ \ {req},
              !.failed = @ \cup {req.kind}]
    /\ TabFrame("reports")

ListFetchFail ==
    \E req \in reportsTab.pending : \E message \in Messages : ListFetchFailWith(req, message)

\* the setInterval callback: fetchReports(false)
PollTick ==
    /\ page = "reports"
    /\ reportsTab.issued < MaxRequests
    /\ reportsTab' =
          [reportsTab EXCEPT
              !.pending = @ \cup {[kind |-> "poll", id |-> reportsTab.issued + 1]},
              !.issued = @ + 1]
    /\ TabFrame("reports")

\* handleDownload up to its await, from the button of a listed report
handleDownload ==
    /\ page = "reports"
    /\ ~reportsTab.loading
    /\ reportsTab.issued < MaxRequests
    /\ \E i \in 1..Len(reportsTab.reports) :
          LET reportId == reportsTab.reports[i].report_id
          IN  /\ reportsTab.downloadingId # reportId
              /\ reportsTab' =
                    [reportsTab EXCEPT
                        !.downloadingId = reportId,
                        !.pending = @ \cup {[kind |-> "download",
                                             id |-> reportsTab.issued + 1,
                                             reportId |-> reportId]},
                        !.issued = @ + 1]
    /\ TabFrame("reports")

\* handleDownload: the blob arrived and was saved; finally
DownloadDone ==
    /\ page = "reports"
    /\ \E req \in reportsTab.pending :
          /\ req.kind = "download"
          /\ reportsTab' = [reportsTab EXCEPT !.downloadingId = Null, !.pending = @ \ {req}]
    /\ TabFrame("reports")

\* handleDownload: catch and finally
DownloadFailWith(req, message) ==
    /\ page = "reports"
    /\ req \in reportsTab.pending /\ req.kind = "download"
    /\ reportsTab' =
          [reportsTab EXCEPT
              !.error = MessageOr(message, "Failed to download report"),
              !.downloadingId = Null,
              !.pending = @ \ {req},
              !.failed = @ \cup {req.kind}]
    /\ TabFrame("reports")

DownloadFail ==
    \E req \in reportsTab.pending : \E message \in Messages : DownloadFailWith(req, message)

\* the x of the error alert: setError(null)
DismissError ==
    /\ page = "reports"
    /\ reportsTab.error # Null
    /\ reportsTab' = [reportsTab EXCEPT !.error = Null]
    /\ TabFrame("reports")

Queries == {<<>>, <<" ">>, <<" ", "t">>}

\* onChange of the query input
SetQueryText ==
    /\ page = "text"
    /\ \E q \in Queries : q # textTab.queryText /\ textTab' = [textTab EXCEPT !.queryText = q]
    /\ TabFrame("text")

\* handleSearch up to its await, from the button (disabled for a blank query or while loading)
handleSearch ==
    /\ page = "text"
    /\ Trim(textTab.queryText) # <<>> /\ ~textTab.loading
    /\ textTab.issued < MaxRequests
    /\ textTab' =
          IF Trim(textTab.queryText) = <<>>
          THEN [textTab EXCEPT !.error = "Please enter a search query"]
          ELSE [textTab EXCEPT !.loading = TRUE, !.error = Null,
                               !.pending = @ + 1, !.issued = @ + 1]
    /\ TabFrame("text")

\* what searchTrademarksByText answers
SearchAnswers == {[results |-> <<"TYGER">>], [results |-> <<>>], [total |-> 0]}

\* handleSearch after its await; finally
SearchDone ==
    /\ page = "text" /\ textTab.pending > 0
    /\ \E data \in SearchAnswers :
          textTab' = [textTab EXCEPT
                         !.results = IF Has(data, "results") THEN data.results ELSE <<>>,
                         !.loading = FALSE, !.pending = @ - 1]
    /\ TabFrame("text")

SearchFailWith_staysBusy(message) ==
    /\ page = "text" /\ textTab.pending > 0
    /\ textTab' = [textTab EXCEPT !.error = MessageOr(message, "Search failed"),
                                  !.results = <<>>, !.pending = @ - 1]
    /\ TabFrame("text")

\* handleSearch: catch and finally
SearchFailWith(message) ==
    /\ page = "text" /\ textTab.pending > 0
    /\ textTab' = [textTab EXCEPT !.error = MessageOr(message, "Search failed"),
                                  !.results = <<>>, !.loading = FALSE, !.pending = @ - 1]
    /\ TabFrame("text")

SearchFail == \E message \in Messages : SearchFailWith(message)

\* the file offered: a PDF, another type, or none
Files == {"journal.pdf", "notes.txt", Null}

\* handleFileSelect and handleDrop
SelectFile(f, complaint) ==
    /\ page = "pdf"
    /\ pdfTab' = IF f = "journal.pdf"
                 THEN [pdfTab EXCEPT !.file = f, !.error = Null]
                 ELSE [pdfTab EXCEPT !.error = complaint]
    /\ TabFrame("pdf")

handleFileSelect == \E f \in Files : SelectFile(f, "Please select a valid PDF file")

handleDrop == \E f \in Files : SelectFile(f, "Please drop a valid PDF file")

\* the Remove button: setFile(null), setResults(null)
RemoveFile ==
    /\ page = "pdf" /\ pdfTab.file # Null
    /\ pdfTab' = [pdfTab EXCEPT !.file = Null, !.results = Null]
    /\ TabFrame("pdf")

\* handleProcess up to its await, from the button (disabled without file or date, or
\* while loading)
handleProcess ==
    /\ page = "pdf"
    /\ pdfTab.file # Null /\ pdfTab.selectedMonday # "" /\ ~pdfTab.loading
    /\ pdfTab.issued < MaxRequests
    /\ pdfTab' =
          IF pdfTab.file = Null
          THEN [pdfTab EXCEPT !.error = "Please select a PDF file first"]
          ELSE IF pdfTab.selectedMonday = ""
          THEN [pdfTab EXCEPT !.error = "Please select a journal Monday date"]
          ELSE [pdfTab EXCEPT !.loading = TRUE, !.error = Null,
                              !.pending = @ + 1, !.issued = @ + 1]
    /\ TabFrame("pdf")

\* handleProcess after its await; finally
ProcessDone ==
    /\ page = "pdf" /\ pdfTab.pending > 0
    /\ pdfTab' = [pdfTab EXCEPT !.results = "processed", !.loading = FALSE, !.pending = @ - 1]
    /\ TabFrame("pdf")

\* handleProcess: catch and finally
ProcessFailWith(message) ==
    /\ page = "pdf" /\ pdfTab.pending > 0
    /\ pdfTab' = [pdfTab EXCEPT !.error = MessageOr(message, "PDF processing failed"),
                                !.results = Null, !.loading = FALSE, !.pending = @ - 1]
    /\ TabFrame("pdf")

ProcessFail == \E message \in Messages : ProcessFailWith(message)

\* one component mounted, its mount effects run: the report detail page, or a tab
InitApp ==
    \/ Init
    \/ /\ authLoading = FALSE /\ authenticated = TRUE
       /\ page \in {"reports", "text", "pdf"}
       /\ storage = EmptyStorage
       /\ reportData = 0 /\ loading = TRUE /\ error = Null /\ inflight = 0
       /\ applicantFilterMode = FALSE /\ selectedApplicant = NoApplicant
       /\ selectedTrademarks = {}
       /\ emSelected = <<>> /\ emReport = Absent /\ applicantGroups = <<>>
       /\ emLoading = TRUE /\ emError = Null /\ lookups = {}
       /\ nFetches = 0 /\ nToggles = 0
       /\ oddKeys = {} /\ lastOn = {} /\ bulkKeys = {}
       /\ clicked = [keys |-> {}, report |-> 0, alert |-> FALSE]
       /\ fin = <<>> /\ fout = [op |-> "none"]
       /\ reportsTab = IF page = "reports"
                       THEN [ReportsTabUnmounted EXCEPT
                                !.pending = {[kind |-> "initial", id |-> 0]}]
                       ELSE ReportsTabUnmounted
       /\ textTab = TextTabUnmounted
       /\ pdfTab = IF page = "pdf"
                   THEN [PdfTabUnmounted EXCEPT !.selectedMonday = "2025-01-06"]
                   ELSE PdfTabUnmounted

NextApp ==
    \/ Next
    \/ ListFetchDone
    \/ ListFetchFail
    \/ PollTick
    \/ handleDownload
    \/ DownloadDone
    \/ DownloadFail
    \/ DismissError
    \/ SetQueryText
    \/ handleSearch
    \/ SearchDone
    \/ SearchFail
    \/ handleFileSelect
    \/ handleDrop
    \/ RemoveFile
    \/ handleProcess
    \/ ProcessDone
    \/ ProcessFail

SpecApp == InitApp /\ [][NextApp]_vars

(***************************************************************************)
(* The shape of the report-detail answer.                                  *)
(***************************************************************************)
MaxEntries == 2

EntryFields == {"entries_with_similarities", "entries", "journal_entries"}

\* entry lists of up to MaxEntries entries
EntryLists ==
    UNION {[1..n -> {EntryTiger, EntryLion, EntryTigerLater, EntryOnyx}] : n \in 0..MaxEntries}

\* a report object carrying the entry list under one of the field names
ReportWith(list, field) ==
    IF field = "entries_with_similarities"
    THEN [report_id |-> "r1", monday_date |-> "2025-01-06", entries_with_similarities |-> list]
    ELSE IF field = "entries"
    THEN [report_id |-> "r1", monday_date |-> "2025-01-06", entries |-> list]
    ELSE [report_id |-> "r1", monday_date |-> "2025-01-06", journal_entries |-> list]

\* the answer of getReportData: the report itself, or the report under 'data'
ResponseWith(list, field, nested) ==
    IF nested THEN [data |-> ReportWith(list, field)] ELSE ReportWith(list, field)

\* data?.data || data
Unwrap(data) == IF Has(data, "data") THEN data.data ELSE data

\* every (entry position, match position) of an entry list
KeysOf(es) ==
    UNION {{<<e, i>> : i \in Indices(SimilarOf(At(es, e)))} : e \in Indices(es)}

InitShape ==
    /\ Idle
    /\ fin \in [list : EntryLists, field : EntryFields, nested : BOOLEAN]
    /\ fout = [op |-> "none"]

\* fetchReportData followed by the render's resolution of the entry list
ResolveEntries ==
    /\ fout.op = "none"
    /\ LET held == Unwrap(ResponseWith(fin.list, fin.field, fin.nested))
       IN  fout' = [op |-> "entries", entries |-> EntriesOf(held),
                    keys |-> KeysOf(EntriesOf(held))]
    /\ UNCHANGED <<fin, pageVars, tabVars>>

NextShape == ResolveEntries

SpecShape == InitShape /\ [][NextShape]_vars

(***************************************************************************)
(* Dates of the email-templates page.  A Date is a number of minutes since *)
(* 1970-01-01T00:00Z (no date used has seconds).                           *)
(***************************************************************************)
MinYear == 2023

MaxYear == 2025

Char(s, i) == SubSeq(s, i, i)

\* String.prototype.includes for a one-character needle
Includes(s, c) == \E i \in 1..Len(s) : Char(s, i) = c

RECURSIVE Split(_, _)
\* String.prototype.split for a one-character separator
Split(s, sep) ==
    IF ~Includes(s, sep) THEN <<s>>
    ELSE LET i == CHOOSE k \in 1..Len(s) :
                     Char(s, k) = sep /\ \A j \in 1..(k - 1) : Char(s, j) # sep
         IN  <<SubSeq(s, 1, i - 1)>> \o Split(SubSeq(s, i + 1, Len(s)), sep)

Digit(c) == CHOOSE d \in 0..9 : ToString(d) = c

RECURSIVE Number(_)
\* Number(s) of a string of decimal digits
Number(s) ==
    IF Len(s) = 0 THEN 0
    ELSE 10 * Number(SubSeq(s, 1, Len(s) - 1)) + Digit(Char(s, Len(s)))

IsLeap(y) == (y % 4 = 0 /\ y % 100 # 0) \/ y % 400 = 0

DaysInMonth(y, m) ==
    IF m = 2 THEN (IF IsLeap(y) THEN 29 ELSE 28)
    ELSE IF m \in {4, 6, 9, 11} THEN 30 ELSE 31

\* days from 1970-01-01 to the first of January of year y
DaysBeforeYear(y) ==
    365 * (y - 1970) + ((y - 1969) \div 4) - ((y - 1901) \div 100) + ((y - 1601) \div 400)

RECURSIVE DaysBeforeMonth(_, _)
\* days from the first of January to the first of month m (1..12) of year y
DaysBeforeMonth(y, m) ==
    IF m = 1 THEN 0 ELSE DaysBeforeMonth(y, m - 1) + DaysInMonth(y, m - 1)

\* MakeDay of ECMAScript: month counted from 0 and carried into the year, the
\* date counted on from the first of the month even past its end
MakeDay(year, month, date) ==
    LET y == year + (month \div 12)
        m == (month % 12) + 1
    IN  DaysBeforeYear(y) + DaysBeforeMonth(y, m) + date - 1

\* Date.UTC(year, month, day, hour, minute, 0)
DateUTC(year, month, day, hour, minute) ==
    MakeDay(year, month, day) * 1440 + hour * 60 + minute

\* the calendar date of a day number
CivilOf(dayNumber) ==
    LET y == CHOOSE yy \in 1970..(MaxYear + 2) :
                 DaysBeforeYear(yy) <= dayNumber /\ dayNumber < DaysBeforeYear(yy + 1)
        rest == dayNumber - DaysBeforeYear(y)
        m == CHOOSE mm \in 1..12 :
                 /\ DaysBeforeMonth(y, mm) <= rest
                 /\ rest < DaysBeforeMonth(y, mm) + DaysInMonth(y, mm)
    IN  [year |-> y, month |-> m, day |-> rest - DaysBeforeMonth(y, m) + 1]

\* parseServerDate for the ISO and the date-only format
parseServerDate(dateString) ==
    IF Includes(dateString, "T")
    THEN LET parts == Split(dateString, "T")
             ymd == Split(parts[1], "-")
             hms == Split(Split(parts[2], ".")[1], ":")
         IN  DateUTC(Number(ymd[1]), Number(ymd[2]) - 1, Number(ymd[3]),
                     Number(hms[1]), Number(hms[2]))
    ELSE LET ymd == Split(dateString, "-")
         IN  DateUTC(Number(ymd[1]), Number(ymd[2]) - 1, Number(ymd[3]), 0, 0)

\* minutes east of UTC of Asia/Kolkata
Kolkata == 330

MonthNames ==
    <<"January", "February", "March", "April", "May", "June", "July", "August",
      "September", "October", "November", "December">>

\* date.toLocaleDateString('en-IN', {month: 'long', day: 'numeric', year: 'numeric',
\* timeZone: 'Asia/Kolkata'})
toLocaleDateString(date) ==
    LET c == CivilOf((date + Kolkata) \div 1440)
    IN  ToString(c.day) \o " " \o MonthNames[c.month] \o " " \o ToString(c.year)

\* date.setMonth(date.getMonth() + months), in the time zone of the browser
\* (offset minutes east of UTC)
setMonth(date, months, offset) ==
    LET local == date + offset
        c == CivilOf(local \div 1440)
    IN  MakeDay(c.year, c.month - 1 + months, c.day) * 1440 + (local % 1440) - offset

formatDate(dateString) == toLocaleDateString(parseServerDate(dateString))

formatOppositionDeadline(mondayDate, offset) ==
    toLocaleDateString(setMonth(parseServerDate(mondayDate), 4, offset))

\* time zones a browser may run in, none with daylight saving: Asia/Kolkata,
\* UTC and America/Phoenix
BrowserOffsets == {Kolkata, 0, 0 - 420}

Pad2(n) == IF n < 10 THEN "0" \o ToString(n) ELSE ToString(n)

\* a reference date as the backend writes it, with its year, month and day, and
\* the zone of the browser
InitDate ==
    /\ Idle
    /\ \E y \in MinYear..MaxYear, m \in 1..12, d \in {1, 6, 15, 28, 29, 30, 31},
          suffix \in {"", "T00:00:00"}, offset \in BrowserOffsets :
          /\ d <= DaysInMonth(y, m)
          /\ fin = [mondayDate |-> ToString(y) \o "-" \o Pad2(m) \o "-" \o Pad2(d) \o suffix,
                    year |-> y, month |-> m, day |-> d, offset |-> offset]
    /\ fout = [op |-> "none"]

\* the deadline sentence of a template rendered in a browser of the given zone
RenderDeadline ==
    /\ fout.op = "none"
    /\ fout' = [op |-> "deadline",
                deadline |-> formatOppositionDeadline(fin.mondayDate, fin.offset),
                journal |-> formatDate(fin.mondayDate)]
    /\ UNCHANGED <<fin, pageVars, tabVars>>

NextDate == RenderDeadline

SpecDate == InitDate /\ [][NextDate]_vars

(***************************************************************************)
(* The email template.  A template is the sequence of its lines.           *)
(***************************************************************************)
RECURSIVE ReplaceUnderscores(_)
\* formatted.replace(/_/g, ' ')
ReplaceUnderscores(s) ==
    IF Len(s) = 0 THEN s
    ELSE (IF Char(s, 1) = "_" THEN " " ELSE Char(s, 1))
         \o ReplaceUnderscores(SubSeq(s, 2, Len(s)))

RECURSIVE CollapseSpaces(_)
\* formatted.replace(/\s+/g, ' ')
CollapseSpaces(s) ==
    IF Len(s) <= 1 THEN s
    ELSE IF Char(s, 1) = " " /\ Char(s, 2) = " " THEN CollapseSpaces(SubSeq(s, 2, Len(s)))
    ELSE Char(s, 1) \o CollapseSpaces(SubSeq(s, 2, Len(s)))

RECURSIVE TrimText(_)
\* String.prototype.trim of a text
TrimText(s) ==
    IF Len(s) > 0 /\ Char(s, 1) = " " THEN TrimText(SubSeq(s, 2, Len(s)))
    ELSE IF Len(s) > 0 /\ Char(s, Len(s)) = " " THEN TrimText(SubSeq(s, 1, Len(s) - 1))
    ELSE s

\* pdfSource.replace(/\.pdf$/i, '')
StripPdfExtension(s) ==
    IF /\ Len(s) >= 4
       /\ Char(s, Len(s) - 3) = "."
       /\ Char(s, Len(s) - 2) \in {"p", "P"}
       /\ Char(s, Len(s) - 1) \in {"d", "D"}
       /\ Char(s, Len(s)) \in {"f", "F"}
    THEN SubSeq(s, 1, Len(s) - 4) ELSE s

\* formatPdfSource of an optional pdf_source
formatPdfSource(pdfSource) ==
    IF pdfSource = <<>> \/ pdfSource[1] = "" THEN "N/A"
    ELSE TrimText(CollapseSpaces(ReplaceUnderscores(StripPdfExtension(pdfSource[1]))))

IsDigit(c) == \E d \in 0..9 : ToString(d) = c

RECURSIVE LeadingDigits(_)
LeadingDigits(s) ==
    IF Len(s) > 0 /\ IsDigit(Char(s, 1))
    THEN Char(s, 1) \o LeadingDigits(SubSeq(s, 2, Len(s))) ELSE ""

\* pdfSource.match(/Journal_(\d+)/): the digits of the first match, or ''
JournalNumber(s) ==
    LET at == {i \in 1..Len(s) :
                  /\ i + 8 <= Len(s)
                  /\ SubSeq(s, i, i + 7) = "Journal_"
                  /\ IsDigit(Char(s, i + 8))}
    IN  IF at = {} THEN ""
        ELSE LeadingDigits(SubSeq(s, (CHOOSE i \in at : \A j \in at : i <= j) + 8, Len(s)))

\* formatJournalInfo of the reference date and an optional pdf_source
formatJournalInfo(mondayDate, pdfSource) ==
    LET journalNumber == IF pdfSource = <<>> THEN "" ELSE JournalNumber(pdfSource[1])
    IN  IF journalNumber = "" THEN formatDate(mondayDate)
        ELSE journalNumber \o " " \o formatDate(mondayDate)

\* the first of the optional texts that is present and not '', or 'N/A'
OrNA(options) ==
    IF \E i \in 1..Len(options) : options[i] # <<>> /\ options[i][1] # ""
    THEN options[CHOOSE i \in 1..Len(options) :
                    /\ options[i] # <<>> /\ options[i][1] # ""
                    /\ \A j \in 1..(i - 1) : options[j] = <<>> \/ options[j][1] = ""][1]
    ELSE "N/A"

classValue_keepPrefix(sim) == OrNA(<<Opt(sim, "trademark_class")>>)

\* sim.trademark_class || 'N/A', without a leading 'Class '
classValue(sim) ==
    LET value == OrNA(<<Opt(sim, "trademark_class")>>)
    IN  IF Len(value) >= 6 /\ SubSeq(value, 1, 6) = "Class "
        THEN SubSeq(value, 7, Len(value)) ELSE value

RECURSIVE MatchLines(_)
\* similarTrademarks.forEach: mark, class and an empty line per match
MatchLines(similarTrademarks) ==
    IF similarTrademarks = <<>> THEN <<>>
    ELSE <<"Trademark: " \o OrNA(<<Opt(Head(similarTrademarks), "mark")>>),
           "Class: " \o classValue(Head(similarTrademarks)),
           "">> \o MatchLines(Tail(similarTrademarks))

\* the lines of one journal entry of a group
EntryLines(item, mondayDate) ==
    <<"Trademark: " \o OrNA(<<Opt(item.entry, "mark_name"), Opt(item.entry, "mark")>>),
      "Class: " \o OrNA(<<Opt(item.entry, "trademark_class")>>) \o "\t\t",
      "Source PDF Journal: " \o formatPdfSource(Opt(item.entry, "pdf_source")),
      "Trademark Journal Date: "
          \o formatJournalInfo(mondayDate, Opt(item.entry, "pdf_source")) \o "\t",
      "Page No: " \o (IF Has(item.entry, "page_number") /\ item.entry.page_number # 0
                      THEN ToString(item.entry.page_number) ELSE "N/A"),
      "",
      "The aforesaid advertised trademark conflict with your following Registered Trademark.",
      "">>
    \o MatchLines(item.similarTrademarks)

RECURSIVE EntriesLines(_, _)
\* entriesArray.forEach, with an empty line between two entries
EntriesLines(groupEntries, mondayDate) ==
    IF groupEntries = <<>> THEN <<>>
    ELSE EntryLines(Head(groupEntries), mondayDate)
         \o (IF Len(groupEntries) > 1 THEN <<"">> ELSE <<>>)
         \o EntriesLines(Tail(groupEntries), mondayDate)

\* generateEmailTemplate, rendered in a browser of the given zone
generateEmailTemplate(applicantName, groupEntries, mondayDate, offset) ==
    <<"Dear Sir/Ma'am,", "",
      "We wish to draw your immediate attention to an application advertised in Trademark Journal, details of which are appearing herein below:",
      "">>
    \o EntriesLines(groupEntries, mondayDate)
    \o <<"We are of the opinion that you should take necessary action to prevent the registration of the said trade mark, for which you need to file a Notice of Opposition on or before "
            \o formatOppositionDeadline(mondayDate, offset) \o ".", "",
         "If you wish to file a Notice of Opposition, kindly let us have your necessary instructions in this regard.",
         "",
         "Should you need further assistance in this regard, please feel free to contact us.",
         "",
         "Kindly, acknowledge safe receipt of this email.", "", "", "",
         "Thanks and Regards,">>

(***************************************************************************)
(* Templates of groups whose entries and matches lack optional fields.     *)
(***************************************************************************)
FullEntry ==
    [trademark_type |-> "text_only", mark_name |-> "TIGER", mark |-> "TIGER device",
     trademark_class |-> "25", pdf_source |-> "Journal_2237_Class__25.PDF",
     page_number |-> 86]

FullMatch ==
    [mark |-> "TYGER", similarity_score |-> Frac(85), trademark_class |-> "Class 5",
     applicant_name |-> Acme]

\* an object without some of its fields
Without(obj, missing) == [f \in DOMAIN obj \ missing |-> obj[f]]

EntryVariants ==
    {Without(FullEntry, missing) :
        missing \in SUBSET {"mark_name", "mark", "trademark_class", "pdf_source", "page_number"}}

MatchVariants ==
    {Without([FullMatch EXCEPT !.trademark_class = class], missing) :
        class \in {"Class 5", "5"}, missing \in SUBSET {"mark", "trademark_class"}}

InitTemplate ==
    /\ Idle
    /\ fin \in [entry : EntryVariants, first : MatchVariants, other : MatchVariants]
    /\ fout = [op |-> "none"]

\* the template of a group of two journal entries, the first with two matches
RenderTemplate ==
    /\ fout.op = "none"
    /\ fout' = [op |-> "template",
                template |->
                    generateEmailTemplate(Acme,
                        <<[entryIndex |-> 0, entry |-> fin.entry,
                           similarTrademarks |-> <<fin.first, FullMatch>>],
                          [entryIndex |-> 1, entry |-> FullEntry,
                           similarTrademarks |-> <<fin.other>>]>>,
                        "2025-01-06", Kolkata)]
    /\ UNCHANGED <<fin, pageVars, tabVars>>

NextTemplate == RenderTemplate

SpecTemplate == InitTemplate /\ [][NextTemplate]_vars

(***************************************************************************)
(* Arrays and aliasing.  A heap maps the name of each array alive during a *)
(* computation to its content; 'entries' is the array held in reportData.  *)
(* map, filter and a fresh [] allocate a new array, sort works in place.   *)
(***************************************************************************)
\* a new array bound to a name
Alloc(h, id, arr) == [x \in DOMAIN h \cup {id} |-> IF x = id THEN arr ELSE h[x]]

\* Array.prototype.sort: the array itself is sorted (and returned)
SortInPlace(h, id) == [h EXCEPT ![id] = SortDesc(h[id])]

\* the heap when a render or a handler of the report detail page starts
HeapOf(es) == [id \in {"entries"} |-> es]

EntriesWithMatchesHeap_sortsEntries(h) ==
    LET sorted == SortDesc(MapEntries(h["entries"], 0))
    IN  Alloc(Alloc(h, "entriesWithMatches",
                    SelectSeq(sorted, LAMBDA item : item.filtered # <<>>)),
              "entries", [n \in 1..Len(sorted) |-> At(h["entries"], sorted[n].entryIndex)])

\* const entriesWithMatches = (entries || []).map(...).filter(...).sort(...)
EntriesWithMatchesHeap(h) ==
    LET mapped == Alloc(h, "mapped", MapEntries(h["entries"], 0))
        filtered == Alloc(mapped, "entriesWithMatches",
                          SelectSeq(mapped["mapped"], LAMBDA item : item.filtered # <<>>))
    IN  SortInPlace(filtered, "entriesWithMatches")

\* getFilteredMatchesByApplicant: const matches = [], matches.push(...), matches.sort(...)
MatchesByApplicantHeap(h, applicantName) ==
    SortInPlace(Alloc(h, "matches", MatchesFrom(applicantName, h["entries"], 0)), "matches")

\* getSelectedTrademarksData: const selectedData = [], selectedData.push(...)
SelectedDataHeap(h, selected) ==
    Alloc(h, "selectedData", getSelectedTrademarksData(selected, h["entries"]))

(***************************************************************************)
(* Claims.                                                                 *)
(***************************************************************************)
\* C1 (as stated): after any sequence of toggles the active selection set is
\* exactly the set of keys that received an odd number of toggles.
C1_OddToggles == selectedTrademarks = oddKeys

\* C1 (amended): the active selection set is exactly the set of keys whose most
\* recent handleTrademarkSelect call had checked = true; for the keys that only
\* row checkboxes touched, these are the keys with an odd number of toggles.
C1_LastCallWins ==
    /\ selectedTrademarks = lastOn
    /\ \A k \in (selectedTrademarks \cup oddKeys) \ bulkKeys :
          k \in selectedTrademarks <=> k \in oddKeys

\* C1 witness: a key toggled an even number of times, the last time by a
\* select-all checkbox, and still selected.
C1_Witness ==
    /\ page = "detail"
    /\ \E k \in bulkKeys : k \in selectedTrademarks /\ k \notin oddKeys

\* C2 (as stated): normalize is idempotent for every score.
C2_Idempotent == fout.op = "normalize" => fout.twice = fout.once

\* C2 (amended): normalize(s) is s/100 when s > 1 and s otherwise, and
\* normalize(normalize(s)) = normalize(s) for every s up to 100.
C2_IdempotentUpTo100 ==
    fout.op = "normalize" =>
        /\ fin > SCALE => fout.once * 100 = fin
        /\ fin <= SCALE => fout.once = fin
        /\ fin <= Pct(100) => fout.twice = fout.once /\ fout.once <= SCALE

\* C2 witness: a percentage normalized to its fraction, unchanged by a second pass.
C2_Witness ==
    /\ fout.op = "normalize"
    /\ fin = Pct(85) /\ fout.once = Frac(85) /\ fout.twice = Frac(85)

\* the matches of an entry a view shows: the threshold-filtered list of the
\* standard view, and the lists of the applicant-filtered view
InStandardView(e, sim) ==
    \E n \in 1..Len(entriesWithMatches) :
        /\ entriesWithMatches[n].entryIndex = e
        /\ \E k \in 1..Len(entriesWithMatches[n].filtered) :
              entriesWithMatches[n].filtered[k] = sim

InApplicantViewOf(e, sim) ==
    \E name \in getUniqueApplicants(entries) :
        LET ms == getFilteredMatchesByApplicant(name, entries)
        IN  \E k \in 1..Len(ms) : ms[k].entryIndex = e /\ ms[k].sim = sim

\* an ambiguous duplicate: an earlier match of the sequence with the same mark,
\* applicant name and class and a score within 1e-4
Ambiguous(sims, i) ==
    \E j \in 0..(i - 1) :
        /\ Opt(At(sims, j), "mark") = Opt(At(sims, i), "mark")
        /\ Opt(At(sims, j), "applicant_name") = Opt(At(sims, i), "applicant_name")
        /\ Opt(At(sims, j), "trademark_class") = Opt(At(sims, i), "trademark_class")
        /\ ScoreOr0(At(sims, j)) - ScoreOr0(At(sims, i)) \in (1 - Epsilon)..(Epsilon - 1)

\* C3: for every match shown in a derived view (and not an ambiguous duplicate of
\* an earlier match), reconciliation returns the match's own position in the
\* entry's original sequence, in the standard view and in the applicant view.
C3_ReconcileOwnIndex ==
    Interactive =>
      \A e \in Indices(entries) :
        LET sims == SimilarOf(At(entries, e))
        IN  \A i \in Indices(sims) :
              ~Ambiguous(sims, i) =>
                /\ InStandardView(e, At(sims, i)) => FindIndexStandard(sims, At(sims, i)) = i
                /\ InApplicantViewOf(e, At(sims, i)) =>
                      FindIndexApplicantView(sims, At(sims, i)) = i

\* a key of the set clicked on that names an ambiguous duplicate of the report held
TouchesAmbiguous(keys, es) ==
    \E k \in keys :
        /\ k[1] \in Indices(es)
        /\ k[2] \in Indices(SimilarOf(At(es, k[1])))
        /\ \E i \in Indices(SimilarOf(At(es, k[1]))) :
              /\ Ambiguous(SimilarOf(At(es, k[1])), i)
              /\ \/ i = k[2]
                 \/ /\ k[2] < i
                    /\ FindIndexApplicantView(SimilarOf(At(es, k[1])),
                                              At(SimilarOf(At(es, k[1])), i)) = k[2]

\* C4: at template generation the matches held by all applicant groups number
\* as many as the keys of the selection set when 'Generate Templates' was
\* clicked, for a selection touching no ambiguous duplicate.
C4_GroupsTotalIsSelectionSize ==
    (/\ page = "email" /\ applicantGroups # <<>>
     /\ ~TouchesAmbiguous(clicked.keys, EntriesOf(Reports[clicked.report])))
    => TotalInGroups(applicantGroups) = Cardinality(clicked.keys)

RECURSIVE SimsFor(_, _, _)
\* the matches of the stored list with this entry index and this grouping key, in order
SimsFor(list, name, e) ==
    IF list = <<>> THEN <<>>
    ELSE (IF Head(list).entryIndex = e /\ GroupKey(Head(list).sim) = name
          THEN <<Head(list).sim>> ELSE <<>>)
         \o SimsFor(Tail(list), name, e)

\* C5: the applicant groups partition the selected (entry, match) pairs: group
\* names are distinct, a group holds each entry index once, a group's entry holds
\* exactly the selected matches of that entry whose grouping key is the group's
\* name (never the entry's other matches), and every selected pair is in a group.
C5_GroupsPartitionSelection ==
    (page = "email" /\ applicantGroups # <<>>) =>
      /\ \A g, h \in 1..Len(applicantGroups) :
            applicantGroups[g].applicantName = applicantGroups[h].applicantName => g = h
      /\ \A g \in 1..Len(applicantGroups) :
            LET ge == applicantGroups[g].entries
            IN  /\ ge # <<>>
                /\ \A k, l \in 1..Len(ge) : ge[k].entryIndex = ge[l].entryIndex => k = l
                /\ \A k \in 1..Len(ge) :
                      /\ ge[k].similarTrademarks # <<>>
                      /\ ge[k].similarTrademarks =
                            SimsFor(emSelected, applicantGroups[g].applicantName,
                                    ge[k].entryIndex)
      /\ \A n \in 1..Len(emSelected) :
            /\ <<emSelected[n].entryIndex, emSelected[n].simIndex>> \in clicked.keys
            /\ \E g \in 1..Len(applicantGroups) :
                  /\ applicantGroups[g].applicantName = GroupKey(emSelected[n].sim)
                  /\ \E k \in 1..Len(applicantGroups[g].entries) :
                        applicantGroups[g].entries[k].entryIndex = emSelected[n].entryIndex
      /\ TotalInGroups(applicantGroups) = Len(emSelected)

\* C5 witness: two groups, one of them holding some but not all matches of an entry.
C5_Witness ==
    /\ page = "email"
    /\ Len(applicantGroups) >= 2
    /\ \E g \in 1..Len(applicantGroups) :
          \E k \in 1..Len(applicantGroups[g].entries) :
              LET ge == applicantGroups[g].entries[k]
              IN  /\ Len(ge.similarTrademarks) >= 2
                  /\ Len(ge.similarTrademarks) < Len(SimilarOf(ge.entry))

\* C6: every score shown or compared in the standard view and in the applicant
\* view is the normalized score: row highlight, score colour, score text and
\* the entry's risk level.
C6_NormalizedEverywhere ==
    Interactive =>
      /\ \A n \in 1..Len(entriesWithMatches) :
            LET filtered == entriesWithMatches[n].filtered
            IN  /\ StandardRisk(filtered) =
                      getRiskLevel(MaxOf([k \in 1..Len(filtered) |->
                                             Normalize(filtered[k].similarity_score)]))
                /\ \A k \in 1..Len(filtered) :
                      StandardRow(filtered[k]) =
                        [highlight |-> RowHighlight(Normalize(filtered[k].similarity_score)),
                         color |-> getScoreColor(Normalize(filtered[k].similarity_score)),
                         text |-> formatPercentage(Normalize(filtered[k].similarity_score))]
      /\ \A name \in getUniqueApplicants(entries) :
            LET ms == getFilteredMatchesByApplicant(name, entries)
            IN  \A k \in 1..Len(ms) :
                  ApplicantRow(ms[k].sim) =
                    [color |-> getScoreColor(Normalize(ms[k].sim.similarity_score)),
                     text |-> formatPercentage(Normalize(ms[k].sim.similarity_score))]

\* C7: a match whose score is 85 or 0.85 is shown with the text 85.0% in the
\* standard view table and in the applicant-filtered view.
C7_EightyFiveBothWays ==
    Interactive =>
      /\ \A n \in 1..Len(entriesWithMatches) :
            \A k \in 1..Len(entriesWithMatches[n].filtered) :
                entriesWithMatches[n].filtered[k].similarity_score \in {Pct(85), Frac(85)}
                => StandardRow(entriesWithMatches[n].filtered[k]).text = "85.0%"
      /\ \A name \in getUniqueApplicants(entries) :
            LET ms == getFilteredMatchesByApplicant(name, entries)
            IN  \A k \in 1..Len(ms) :
                  ms[k].sim.similarity_score \in {Pct(85), Frac(85)}
                  => ApplicantRow(ms[k].sim).text = "85.0%"

\* t is n without its leading and trailing spaces
IsTrimOf(t, n) ==
    \E a, b \in 0..Len(n) :
        /\ a + b + Len(t) = Len(n)
        /\ \A i \in 1..Len(t) : t[i] = n[a + i]
        /\ \A i \in 1..a : n[i] = " "
        /\ \A i \in (Len(n) - b + 1)..Len(n) : n[i] = " "
        /\ t # <<>> => t[1] # " " /\ t[Len(t)] # " "

\* the trimmed applicant name of a match, a missing name counting as empty
TrimmedName(sim) ==
    IF Has(sim, "applicant_name")
    THEN CHOOSE t \in NameInputs \cup {<<>>} : IsTrimOf(t, sim.applicant_name)
    ELSE <<>>

\* C8 (as stated): two matches fall in the same group iff their trimmed names
\* are equal.
C8_SameGroupIffSameTrimmedName ==
    fout.op = "group" =>
      (Len(fout.groups) = 1 <=> TrimmedName(fin[1]) = TrimmedName(fin[2]))

\* C8 (amended): the group of a match is named by its trimmed applicant name, or
\* "Unknown" when the name is missing, empty or blank; two matches fall in the
\* same group iff their trimmed names are equal or each of them is empty or "Unknown".
C8_SameGroupIffSameKey ==
    fout.op = "group" =>
      LET t1 == TrimmedName(fin[1])
          t2 == TrimmedName(fin[2])
          k1 == IF t1 = <<>> THEN Unknown ELSE t1
          k2 == IF t2 = <<>> THEN Unknown ELSE t2
      IN  /\ fout.groups[1].applicantName = k1
          /\ Len(fout.groups) = 1 <=> (t1 = t2 \/ {t1, t2} \subseteq {<<>>, Unknown})
          /\ Len(fout.groups) = 2 => fout.groups[2].applicantName = k2
          /\ Len(fout.groups) \in {1, 2}

\* C8 witness: names differing only in case, each with surrounding spaces, in two
\* groups named by the trimmed names.
C8_Witness ==
    /\ fout.op = "group"
    /\ Has(fin[1], "applicant_name") /\ fin[1].applicant_name = <<" ", "a", " ">>
    /\ Has(fin[2], "applicant_name") /\ fin[2].applicant_name = <<"A", " ">>
    /\ Len(fout.groups) = 2
    /\ fout.groups[1].applicantName = <<"a">> /\ fout.groups[2].applicantName = <<"A">>

\* C10: once the email-templates page has parsed the stored list and report,
\* both session-storage keys are cleared.
C10_StorageClearedAfterParse ==
    (page = "email" /\ emSelected # <<>>) => storage = EmptyStorage

\* both keys hold what handleGenerateTemplates stores: a non-empty list of selected
\* items and a report object
WellFormed(st) ==
    /\ ~Missing(st.selectedTrademarks) /\ ~Missing(st.reportData)
    /\ st.selectedTrademarks[1].ok /\ st.reportData[1].ok
    /\ st.selectedTrademarks[1].kind = "array"
    /\ st.selectedTrademarks[1].value # <<>>
    /\ \A i \in 1..Len(st.selectedTrademarks[1].value) :
          Usable(st.selectedTrademarks[1].value[i])
    /\ st.reportData[1].kind = "object"

\* C11: when the session storage read by the email-templates page is corrupted
\* (or absent), the page ends in the non-loading error state, with no applicant
\* groups, no email lookup and no uncaught exception.
C11_CorruptedAsAbsent ==
    (page \in {"email", "crash"} /\ ~WellFormed(storage)) =>
        /\ page = "email"
        /\ emError # Null /\ ~emLoading
        /\ applicantGroups = <<>> /\ lookups = {}

\* C12: a click on 'Generate Templates' with no selected key resolving to a match
\* of the report held shows the alert, stays on the detail page and leaves the
\* session storage and the selection as they are.
C12_AlertNoNavigation ==
    [][(/\ clicked' # clicked
        /\ getSelectedTrademarksData(selectedTrademarks, entries) = <<>>)
       => (/\ clicked'.alert
           /\ page' = "detail"
           /\ storage' = storage
           /\ selectedTrademarks' = selectedTrademarks)]_vars

\* C12 witness: the alert was shown for a non-empty selection none of whose keys
\* names a match of the report held, and the page is still the detail page.
C12_Witness ==
    /\ clicked.alert /\ clicked.keys # {}
    /\ page = "detail" /\ reportData = clicked.report
    /\ getSelectedTrademarksData(clicked.keys, entries) = <<>>

\* C13: email lookups are independent. While the groups are shown the page error
\* is unset; a group is loading only while a lookup of its own is in flight (no
\* group waits for another's); a group not loading holds no email or the answer
\* for its own name; and a failing lookup leaves its group with email null and
\* loading false and every other group as it was.
C13_LookupsIndependent ==
    /\ []((page = "email" /\ applicantGroups # <<>>) =>
            /\ emError = Null
            /\ \A g \in 1..Len(applicantGroups) :
                  /\ applicantGroups[g].loading =>
                        \E l \in lookups : l.index = g - 1
                  /\ ~applicantGroups[g].loading =>
                        applicantGroups[g].email \in
                            {NoEmail, EmailOf(applicantGroups[g].applicantName)})
    /\ [][LookupFail =>
            \E l \in lookups \ lookups' :
                /\ l.index < Len(applicantGroups)
                /\ Len(applicantGroups') = Len(applicantGroups)
                /\ applicantGroups'[l.index + 1].email = NoEmail
                /\ ~applicantGroups'[l.index + 1].loading
                /\ emError' = emError /\ emLoading' = emLoading
                /\ \A g \in 1..Len(applicantGroups) :
                      g # l.index + 1 => applicantGroups'[g] = applicantGroups[g]]_vars

\* C13 witness: all lookups are over, one group has no email, another has its own.
C13_Witness ==
    /\ page = "email" /\ lookups = {} /\ emError = Null
    /\ \E g, h \in 1..Len(applicantGroups) :
          /\ ~applicantGroups[g].loading /\ applicantGroups[g].email = NoEmail
          /\ ~applicantGroups[h].loading
          /\ applicantGroups[h].email = EmailOf(applicantGroups[h].applicantName)

\* C14: a lookup completion changes only the email and loading fields of the
\* group at its own index; every lookup in flight, of this run of the grouping
\* effect or of an earlier one, is for the name of the group at its index, and
\* the email a group holds is the answer for its own applicant name.
C14_OwnSliceOnly ==
    /\ [](page = "email" =>
            /\ \A l \in lookups :
                  /\ l.index < Len(applicantGroups)
                  /\ applicantGroups[l.index + 1].applicantName = l.applicantName
            /\ \A g \in 1..Len(applicantGroups) :
                  /\ DOMAIN applicantGroups[g] = {"applicantName", "email", "loading", "entries"}
                  /\ applicantGroups[g].email \in
                        {NoEmail, EmailOf(applicantGroups[g].applicantName)})
    /\ [][(page = "email" /\ page' = "email" /\ lookups' # lookups /\ lookups' \subseteq lookups)
           => \E l \in lookups \ lookups' :
                 /\ Len(applicantGroups') = Len(applicantGroups)
                 /\ \A g \in 1..Len(applicantGroups) :
                       IF g = l.index + 1
                       THEN /\ applicantGroups'[g].applicantName = applicantGroups[g].applicantName
                            /\ applicantGroups'[g].entries = applicantGroups[g].entries
                            /\ ~applicantGroups'[g].loading
                            /\ applicantGroups'[g].email \in {NoEmail, EmailOf(l.applicantName)}
                       ELSE applicantGroups'[g] = applicantGroups[g]]_vars

\* C14 witness: lookups of two runs of the grouping effect are in flight and a
\* group holds an email written since the later run reset the groups.
C14_Witness ==
    /\ page = "email"
    /\ \E l, m \in lookups : l.run # m.run
    /\ \E g \in 1..Len(applicantGroups) :
          /\ applicantGroups[g].email # NoEmail
          /\ \E h \in 1..Len(applicantGroups) : h # g /\ applicantGroups[h].loading

\* the error shown for a failure: the server's message when there is one, else the fallback
ShowsFailure(shown, message, fallback) ==
    /\ message # "" => shown = message
    /\ message = "" => shown = fallback

\* C15: in the reports list a failure of the mount fetch sets the error message
\* and ends loading; a failure of a background poll changes neither the error,
\* nor the loading flag, nor the list displayed.
C15_PollFailuresSwallowed ==
    [][\A req \in reportsTab.pending : \A message \in Messages :
          ListFetchFailWith(req, message) =>
             IF req.kind = "initial"
             THEN /\ ShowsFailure(reportsTab'.error, message, "Failed to fetch reports")
                  /\ ~reportsTab'.loading
                  /\ reportsTab'.reports = reportsTab.reports
             ELSE /\ reportsTab'.error = reportsTab.error
                  /\ reportsTab'.loading = reportsTab.loading
                  /\ reportsTab'.reports = reportsTab.reports]_vars

\* C15 witness: the mount fetch failed and its message is shown, a poll brought a
\* list, and a later poll failed.
C15_Witness ==
    /\ page = "reports"
    /\ {"initial", "poll"} \subseteq reportsTab.failed
    /\ reportsTab.error = "Failed to fetch reports" /\ ~reportsTab.loading
    /\ reportsTab.reports # <<>> /\ reportsTab.pending = {}

\* C16: a failed text search, PDF processing, report download or report detail
\* load shows the server's message, or the handler's fallback when there is
\* none, and clears the busy flag (results reset for search and processing).
C16_ForegroundFailuresSurfaced ==
    [][\A message \in Messages :
          /\ SearchFailWith(message) =>
                /\ ShowsFailure(textTab'.error, message, "Search failed")
                /\ textTab'.results = <<>> /\ ~textTab'.loading
          /\ ProcessFailWith(message) =>
                /\ ShowsFailure(pdfTab'.error, message, "PDF processing failed")
                /\ pdfTab'.results = Null /\ ~pdfTab'.loading
          /\ \A req \in reportsTab.pending :
                DownloadFailWith(req, message) =>
                   /\ ShowsFailure(reportsTab'.error, message, "Failed to download report")
                   /\ reportsTab'.downloadingId = Null
          /\ FetchFailWith(message) =>
                /\ ShowsFailure(error', message, "Failed to load report data")
                /\ ~loading']_vars

\* C16 witness: a text search failed with a message of the server, which is shown,
\* with no results and the page no longer loading.
C16_Witness ==
    /\ page = "text"
    /\ textTab.issued > 0 /\ textTab.pending = 0
    /\ textTab.error = "Service unavailable"
    /\ textTab.results = <<>> /\ ~textTab.loading

\* the first position of the sequence whose mark name, applicant name and class
\* equal the candidate's and whose score is within 1e-4 of it, or -1
FirstByFullTuple(sims, sim) ==
    LET same(s) ==
            /\ Opt(s, "mark") = Opt(sim, "mark")
            /\ Opt(s, "applicant_name") = Opt(sim, "applicant_name")
            /\ Opt(s, "trademark_class") = Opt(sim, "trademark_class")
            /\ ScoreOr0(s) # Infinity /\ ScoreOr0(sim) # Infinity
            /\ ScoreOr0(s) - ScoreOr0(sim) \in (1 - Epsilon)..(Epsilon - 1)
    IN  IF \E i \in Indices(sims) : same(At(sims, i))
        THEN CHOOSE i \in Indices(sims) :
                 same(At(sims, i)) /\ \A j \in 0..(i - 1) : ~same(At(sims, j))
        ELSE -1

\* C17: wherever a displayed match becomes a selection key, reconciliation
\* returns the first position of the entry's original sequence that agrees
\* with the match on mark name, applicant name and class and is within 1e-4
\* of its score: the standard view (row checkbox, select-all and its checked
\* state, which share one predicate) and the applicant-filtered view give the
\* same position for the same match.
C17_ReconcileByFullTuple ==
    Interactive =>
      \A e \in Indices(entries) :
        LET sims == SimilarOf(At(entries, e))
        IN  \A i \in Indices(sims) :
              LET sim == At(sims, i)
              IN  /\ InStandardView(e, sim) =>
                        FindIndexStandard(sims, sim) = FirstByFullTuple(sims, sim)
                  /\ InApplicantViewOf(e, sim) =>
                        FindIndexApplicantView(sims, sim) = FirstByFullTuple(sims, sim)
                  /\ (InStandardView(e, sim) /\ InApplicantViewOf(e, sim)) =>
                        FindIndexStandard(sims, sim) = FindIndexApplicantView(sims, sim)

\* a filtered match of the standard view for which findIndex finds no position
MissedStandard(item, k) ==
    FindIndexStandard(SimilarOf(At(entries, item.entryIndex)), item.filtered[k]) = -1

\* C18: a displayed match whose reconciliation finds no position is skipped and
\* nothing else is: no key with position -1 ever enters the selection set (the
\* row is not rendered and select-all passes over it), every other match, of
\* the same entry and of the other entries, still has its checkbox in the
\* standard view and in the applicant-filtered view, and every entry with a
\* visible match keeps its table.
C18_MissSkipsOnlyThatMatch ==
    /\ \A key \in selectedTrademarks : key[2] # -1
    /\ Interactive =>
         /\ \A n \in 1..Len(entriesWithMatches) :
              \A k \in 1..Len(entriesWithMatches[n].filtered) :
                 (StandardRows(entriesWithMatches[n])[k] = <<>>)
                    <=> MissedStandard(entriesWithMatches[n], k)
         /\ \A name \in getUniqueApplicants(entries) :
              LET ms == getFilteredMatchesByApplicant(name, entries)
              IN  \A k \in 1..Len(ms) :
                     (ApplicantCards(ms)[k] = <<>>)
                        <=> FindIndexApplicantView(SimilarOf(At(entries, ms[k].entryIndex)),
                                                   ms[k].sim) = -1
         /\ \A e \in Indices(entries) :
              getFilteredSimilarTrademarks(SimilarOf(At(entries, e))) # <<>>
                 => \E n \in 1..Len(entriesWithMatches) : entriesWithMatches[n].entryIndex = e

\* C18 witness: an entry shows a match that reconciles to no position; its
\* select-all was clicked and selected the other match of the entry, and a row
\* of another entry was toggled.
C18_Witness ==
    /\ Interactive /\ ~InApplicantView
    /\ \E n \in 1..Len(entriesWithMatches) :
          /\ entriesWithMatches[n].entryIndex = 0
          /\ MissedStandard(entriesWithMatches[n], 1)
          /\ StandardRows(entriesWithMatches[n])[2] = << <<0, 1>> >>
    /\ <<0, 1>> \in bulkKeys
    /\ selectedTrademarks = {<<0, 1>>, <<1, 1>>}

\* the own keys of the visible (>= 30%) matches of an entry
VisibleKeys(e) ==
    {<<e, i>> : i \in {j \in Indices(SimilarOf(At(entries, e))) :
                          Visible(At(SimilarOf(At(entries, e)), j), MinThreshold)}}

\* a step of the select-all checkbox of the n-th table of the standard view
SelectAllOf(n) ==
    /\ Interactive /\ ~InApplicantView
    /\ n \in 1..Len(entriesWithMatches)
    /\ Select(SelectAllCalls(entriesWithMatches[n], ~AllSelected(entriesWithMatches[n])), TRUE)

\* C19: the select-all checkbox of an entry is shown checked exactly when the
\* own key of every visible match of the entry is selected, and a click on it
\* sets every visible match to the new value: after checking, all their own
\* keys are in the selection set, after unchecking none is, and every other key
\* (non-visible matches, other entries) is as before.
C19_SelectAllTogglesEachVisible ==
    [][\A n \in 1..Len(entriesWithMatches) :
         SelectAllOf(n) =>
           LET item == entriesWithMatches[n]
               own == VisibleKeys(item.entryIndex)
           IN  /\ AllSelected(item) <=> own \subseteq selectedTrademarks
               /\ ~AllSelected(item) => own \subseteq selectedTrademarks'
               /\ AllSelected(item) => own \cap selectedTrademarks' = {}
               /\ selectedTrademarks' \ own = selectedTrademarks \ own]_vars

\* the value of the first of the four alternative fields that holds at least
\* one match, or the empty sequence
FirstNonEmpty(entry) ==
    LET names == <<"similar_trademarks", "similar_trademark", "similarities", "matches">>
        full(i) == Has(entry, names[i]) /\ entry[names[i]] # <<>>
    IN  IF \E i \in 1..Len(names) : full(i)
        THEN entry[names[CHOOSE i \in 1..Len(names) :
                             full(i) /\ \A j \in 1..(i - 1) : ~full(j)]]
        ELSE <<>>

\* C20: the match sequence of every entry is the first non-empty of the four
\* alternative fields, at every place it is read: the sequence reconciliation
\* scans, the threshold-filtered table of the standard view, and the applicants
\* offered for grouping.
C20_FirstNonEmptyField ==
    Interactive =>
      \A e \in Indices(entries) :
        LET want == FirstNonEmpty(At(entries, e))
        IN  /\ SimilarOf(At(entries, e)) = want
            /\ getFilteredSimilarTrademarks(want) # <<>> =>
                 \E n \in 1..Len(entriesWithMatches) :
                    /\ entriesWithMatches[n].entryIndex = e
                    /\ entriesWithMatches[n].filtered = getFilteredSimilarTrademarks(want)
            /\ \A i \in Indices(want) :
                 (Has(At(want, i), "applicant_name") /\ Trim(At(want, i).applicant_name) # <<>>)
                    => Trim(At(want, i).applicant_name) \in getUniqueApplicants(entries)

\* C21: an answer carrying its entries under journal_entries or entries, at the
\* top level or under 'data', resolves to the same entry list, with the same
\* positions and the same selection keys, as the same answer carrying them
\* under entries_with_similarities.
C21_SameEntriesUnderAnyField ==
    fout.op = "entries" =>
      LET primary == EntriesOf(Unwrap(ResponseWith(fin.list, "entries_with_similarities",
                                                   fin.nested)))
      IN  /\ fout.entries = primary
          /\ fout.entries = fin.list
          /\ fout.keys = KeysOf(primary)

\* C21 witness: two entries sent under journal_entries inside 'data' were resolved.
C21_Witness ==
    /\ fout.op = "entries"
    /\ fin.field = "journal_entries" /\ fin.nested
    /\ fout.entries = <<EntryLion, EntryTiger>>
    /\ <<1, 2>> \in fout.keys

\* C24: the deadline of a template is the reference date plus four calendar
\* months: the same day of the month, the month advanced by four with the year
\* carried, for every reference date and wherever the browser runs.
C24_DeadlineIsFourMonthsLater ==
    fout.op = "deadline" =>
      fout.deadline = ToString(fin.day) \o " "
                        \o MonthNames[((fin.month + 3) % 12) + 1] \o " "
                        \o ToString(fin.year + ((fin.month + 3) \div 12))

\* the text of a field, or the literal N/A when the field is missing
FieldOrNA(obj, f) == IF Has(obj, f) THEN obj[f] ELSE "N/A"

\* the class of a match as a template shows it
ShownClass(sim) ==
    IF ~Has(sim, "trademark_class") THEN "N/A"
    ELSE IF sim.trademark_class = "Class 5" THEN "5" ELSE sim.trademark_class

\* C23: the template of a group is complete whatever optional fields are
\* missing: every line of every entry and match is present, a missing entry
\* mark name (mark_name and mark), entry class, source document, page number,
\* match mark or match class reads N/A, a match class 'Class 5' reads '5', and
\* the lines of the other match and of the other entry are as for complete data.
C23_MissingFieldsReadNA ==
    fout.op = "template" =>
      LET t == fout.template
      IN  /\ Len(t) = 41
          /\ t[5] = "Trademark: " \o (IF Has(fin.entry, "mark_name") THEN fin.entry.mark_name
                                      ELSE FieldOrNA(fin.entry, "mark"))
          /\ t[6] = "Class: " \o FieldOrNA(fin.entry, "trademark_class") \o "\t\t"
          /\ t[7] = "Source PDF Journal: "
                       \o (IF Has(fin.entry, "pdf_source") THEN "Journal 2237 Class 25" ELSE "N/A")
          /\ t[8] = "Trademark Journal Date: "
                       \o (IF Has(fin.entry, "pdf_source") THEN "2237 " ELSE "")
                       \o "6 January 2025" \o "\t"
          /\ t[9] = "Page No: " \o (IF Has(fin.entry, "page_number") THEN "86" ELSE "N/A")
          /\ t[13] = "Trademark: " \o FieldOrNA(fin.first, "mark")
          /\ t[14] = "Class: " \o ShownClass(fin.first)
          /\ t[16] = "Trademark: TYGER" /\ t[17] = "Class: 5"
          /\ t[20] = "Trademark: TIGER" /\ t[21] = "Class: 25" \o "\t\t"
          /\ t[22] = "Source PDF Journal: Journal 2237 Class 25"
          /\ t[24] = "Page No: 86"
          /\ t[28] = "Trademark: " \o FieldOrNA(fin.other, "mark")
          /\ t[29] = "Class: " \o ShownClass(fin.other)
          /\ t[41] = "Thanks and Regards,"

\* C23 witness: a template was rendered for an entry with no mark name, mark,
\* class, source document or page number and a match with no mark and no class.
C23_Witness ==
    /\ fout.op = "template"
    /\ DOMAIN fin.entry = {"trademark_type"}
    /\ DOMAIN fin.first = {"similarity_score", "applicant_name"}
    /\ DOMAIN fin.other = DOMAIN FullMatch /\ fin.other.trademark_class = "Class 5"
    /\ fout.template[5] = "Trademark: N/A" /\ fout.template[14] = "Class: N/A"
    /\ fout.template[29] = "Class: 5"

\* the elements of a finite set of numbers in increasing order
Increasing(S) ==
    CHOOSE f \in [1..Cardinality(S) -> S] :
        \A a, b \in 1..Cardinality(S) : a < b => f[a] < f[b]

\* the keys clicked on that exist in the report clicked on and belong to an applicant
KeysOfApplicant(name) ==
    LET es == EntriesOf(Reports[clicked.report])
    IN  {k \in clicked.keys \cap KeysOf(es) :
            GroupKey(At(SimilarOf(At(es, k[1])), k[2])) = name}

\* the entries of an applicant's template as the original positions order them
OrderedEntries(name) ==
    LET es == EntriesOf(Reports[clicked.report])
        K == KeysOfApplicant(name)
        eIdx == Increasing({k[1] : k \in K})
    IN  [n \in 1..Len(eIdx) |->
            LET sIdx == Increasing({k[2] : k \in {kk \in K : kk[1] = eIdx[n]}})
            IN  [entryIndex |-> eIdx[n], entry |-> At(es, eIdx[n]),
                 similarTrademarks |->
                    [a \in 1..Len(sIdx) |-> At(SimilarOf(At(es, eIdx[n])), sIdx[a])]]]

\* the ordering half of C22: the stored list is strictly increasing in
\* (entryIndex, simIndex) and every group lists its journal entries, and each
\* entry its matches, in increasing original position.
OrderedHandOver ==
    (page = "email" /\ applicantGroups # <<>>) =>
      /\ \A i, j \in 1..Len(emSelected) :
            i < j => \/ emSelected[i].entryIndex < emSelected[j].entryIndex
                     \/ /\ emSelected[i].entryIndex = emSelected[j].entryIndex
                        /\ emSelected[i].simIndex < emSelected[j].simIndex
      /\ \A g \in 1..Len(applicantGroups) :
            /\ applicantGroups[g].entries = OrderedEntries(applicantGroups[g].applicantName)
            /\ \A offset \in BrowserOffsets :
                  generateEmailTemplate(applicantGroups[g].applicantName,
                                        applicantGroups[g].entries,
                                        Reports[clicked.report].monday_date, offset)
                  = generateEmailTemplate(applicantGroups[g].applicantName,
                                          OrderedEntries(applicantGroups[g].applicantName),
                                          Reports[clicked.report].monday_date, offset)

\* C22: every template lists the journal entries in increasing original entry
\* position and the selected matches of an entry in increasing original match
\* position, whatever the order and the view of the toggles; the list handed
\* over through session storage is sorted by (entryIndex, simIndex) and holds
\* each selected key once.
C22_TemplatesInOriginalOrder ==
    /\ OrderedHandOver
    /\ (page = "email" /\ applicantGroups # <<>>) =>
          /\ {<<emSelected[i].entryIndex, emSelected[i].simIndex>> : i \in 1..Len(emSelected)}
                = clicked.keys
          /\ Len(emSelected) = Cardinality(clicked.keys)

\* C25: the entry list of the loaded report, with every entry's match sequence,
\* is the same after each computation of the report detail page as before it
\* (entries sorted by highest score, an applicant's matches sorted by score,
\* threshold filtering, collection of the selected data), the sorted and
\* filtered arrays being other arrays; and no toggle, select-all, view change
\* or click on 'Generate Templates' replaces the report held.
C25_ReportNeverReordered ==
    /\ [](Interactive =>
            /\ EntriesWithMatchesHeap(HeapOf(entries))["entries"] = entries
            /\ EntriesWithMatchesHeap(HeapOf(entries))["entriesWithMatches"] = entriesWithMatches
            /\ \A name \in getUniqueApplicants(entries) :
                  /\ MatchesByApplicantHeap(HeapOf(entries), name)["entries"] = entries
                  /\ MatchesByApplicantHeap(HeapOf(entries), name)["matches"]
                        = getFilteredMatchesByApplicant(name, entries)
            /\ SelectedDataHeap(HeapOf(entries), selectedTrademarks)["entries"] = entries)
    /\ [][(Interactive /\ page' = "detail" /\ inflight' >= inflight)
            => reportData' = reportData]_vars

\* C25 witness: a report whose entries are displayed in another order than they
\* were loaded in (the second entry has the highest score), with a selection made.
C25_Witness ==
    /\ Interactive
    /\ Len(entriesWithMatches) = 2
    /\ entriesWithMatches[1].entryIndex = 1 /\ entriesWithMatches[2].entryIndex = 0
    /\ selectedTrademarks # {}

\* C26: on the report detail page every key of the selection set names an
\* existing entry position and match position of the report held, whose match
\* has a normalized score of at least 0.3.
C26_SelectionRefersToVisibleMatches ==
    page = "detail" =>
      \A k \in selectedTrademarks :
         /\ reportData # 0
         /\ k \in KeysOf(entries)
         /\ Visible(At(SimilarOf(At(entries, k[1])), k[2]), MinThreshold)

\* C27: for an authenticated user every load of the email-templates page
\* eventually leaves the loading state, in the error state or with the applicant
\* groups displayed, whatever the two session-storage keys hold.
C27_LoadingEnds ==
    (authenticated /\ page \in {"mount", "email"})
       ~> (/\ page = "email" /\ ~emLoading
           /\ (emError # Null \/ applicantGroups # <<>>))

\* C28: while a download of a report is in flight in the reports list,
\* downloadingId is that report's id (its button is disabled and no second
\* download of it can be started), however the downloads of several reports
\* are started and end.
C28_DownloadInFlightIsMarked ==
    page = "reports" =>
      \A req \in reportsTab.pending :
         req.kind = "download" => reportsTab.downloadingId = req.reportId


\* the getReports requests of the reports list that are still in flight
ListRequestsInFlight ==
    {req \in reportsTab.pending : req.kind \in {"initial", "poll"}}

\* the answer of the most recently issued getReports request that succeeded
LatestIssuedAnswer ==
    CHOOSE a \in reportsTab.answered : \A b \in reportsTab.answered : b.id <= a.id

\* C29: once every getReports request of the reports list has ended, the list
\* displayed is the answer of the most recently issued request that succeeded,
\* newest reference date first, in whatever order the answers arrived.
C29_LatestIssuedAnswerShown ==
    (/\ page = "reports"
     /\ ListRequestsInFlight = {}
     /\ reportsTab.answered # {})
    => reportsTab.reports =
          SortByDate(IF Has(LatestIssuedAnswer.data, "reports")
                     THEN LatestIssuedAnswer.data.reports ELSE <<>>)


\* C30: a report-detail fetch, a read of the stored selection or an applicant email
\* lookup has been issued only when authentication has finished loading and the
\* user is authenticated; once authentication has finished for a user who is not
\* authenticated the pages are left for '/' and show no report and no templates.
C30_NothingBeforeAuthentication ==
    /\ (inflight > 0 \/ emSelected # <<>> \/ lookups # {})
          => (~authLoading /\ authenticated)
    /\ (~authLoading /\ ~authenticated)
          => (/\ page \in {"home", "mount"}
              /\ reportData = 0 /\ applicantGroups = <<>>)

====
